---------------------------- MODULE Spec2Model ----------------------------
\* A model of the outline builder of the editable-ppt pipeline
\* (scripts/build_outline.py), of the file-name policy of the extractor
\* (scripts/extract_materials.py), of the renderer
\* (scripts/render_editable_ppt.py) and of the deck QA (scripts/qa_deck.py).
\*
\* Text is modelled as Python models it: a str is a sequence of Unicode code
\* points, so len, lower, `in`, split, join and slicing are computed on the
\* characters.  Identifiers that the code only compares with literals
\* (mode, page_type, type, dictionary keys) are TLA+ strings.
EXTENDS Integers, Sequences, FiniteSets, TLC

VARIABLES
    pc,         \* "idle" before a call, "done" after it returned or raised
    items,      \* argument of _dedupe_keep_order
    deduped,    \* its return value
    summary,    \* argument of _collect_points and build_outline
    limit,      \* argument of _collect_points
    collected,  \* return value of _collect_points
    points,     \* argument of _section_payloads
    mode,       \* argument of _section_payloads and build_outline
    buckets,    \* the buckets of _section_payloads after its classification loop
    payloads,   \* return value of _section_payloads
    strategy,   \* argument of build_outline
    outline,    \* return value of build_outline
    error,      \* the exception build_outline raised, or "none"
    module_strategy,  \* the module-level DEFAULT_STRATEGY as the next call finds it
    deck,       \* the slides of the presentation render_ppt_from_outline saved
    report,     \* return value of validate_deck
    slide_content,  \* argument content of _make_slide
    made_slide,     \* return value of _make_slide
    module_theme,      \* the module-level DEFAULT_THEME as the next call finds it
    module_fallbacks,  \* the module-level SECTION_FALLBACKS as the next call finds it
    caller_summary,    \* the caller's summary object after the call
    caller_strategy    \* the caller's strategy object after the call

vars == <<pc, items, deduped, summary, collected, points, mode, buckets,
          payloads, strategy, outline, error, module_strategy, deck, report, limit,
          slide_content, made_slide, module_theme, module_fallbacks, caller_summary,
          caller_strategy>>

\* ----------------------------------------------------------------------
\* Pattern and keyword tables (build_outline.py, lines 38-131)
\* ----------------------------------------------------------------------
REBUTTAL_PATTERNS ==
    << <<114, 101, 115, 112, 111, 110, 115, 101, 32, 116, 111, 32, 114, 101, 102, 101, 114, 101, 101, 115>>,   \* 'response to referees'
       <<114, 101, 115, 112, 111, 110, 115, 101, 32, 116, 111, 32, 114, 101, 118, 105, 101, 119, 101, 114,
        115>>,   \* 'response to reviewers'
       <<114, 101, 98, 117, 116, 116, 97, 108>>,   \* 'rebuttal'
       <<114, 101, 118, 105, 101, 119, 101, 114>>,   \* 'reviewer'
       <<114, 101, 102, 101, 114, 101, 101>>,   \* 'referee'
       <<23457, 31295>>,   \* '审稿'
       <<22238, 22797>>   \* '回复'
    >>
NOISE_PATTERNS ==
    << <<101, 109, 97, 105, 108, 58>>,   \* 'email:'
       <<99, 111, 114, 114, 101, 115, 112, 111, 110, 100, 101, 110, 99, 101>>,   \* 'correspondence'
       <<116, 111, 32, 119, 104, 111, 109, 32, 99, 111, 114, 114, 101, 115, 112, 111, 110, 100, 101, 110,
        99, 101>>,   \* 'to whom correspondence'
       <<104, 116, 116, 112, 115, 58, 47, 47>>,   \* 'https://'
       <<104, 116, 116, 112, 58, 47, 47>>,   \* 'http://'
       <<100, 111, 105, 46, 111, 114, 103>>,   \* 'doi.org'
       <<97, 100, 118, 97, 110, 99, 101, 32, 97, 99, 99, 101, 115, 115, 32, 112, 117, 98, 108, 105, 99, 97,
        116, 105, 111, 110>>,   \* 'advance access publication'
       <<116, 104, 101, 32, 102, 105, 114, 115, 116, 32, 102, 111, 117, 114, 32, 97, 117, 116, 104, 111,
        114, 115>>,   \* 'the first four authors'
       <<100, 101, 112, 97, 114, 116, 109, 101, 110, 116, 32, 111, 102>>,   \* 'department of'
       <<115, 99, 104, 111, 111, 108, 32, 111, 102>>,   \* 'school of'
       <<97, 117, 116, 104, 111, 114, 64, 101, 120, 97, 109, 112, 108, 101, 46, 99, 111, 109>>,   \* 'author@example.com'
       <<26412, 20154, 23436, 20840, 20102, 35299, 20013, 23665, 22823, 23398, 26377, 20851, 20445, 30041>>,   \* '本人完全了解中山大学有关保留'
       <<23398, 20301, 35770, 25991, 20351, 29992, 25480, 26435, 22768, 26126>>,   \* '学位论文使用授权声明'
       <<21407, 21019, 24615, 22768, 26126>>,   \* '原创性声明'
       <<31572, 36777, 22996, 21592, 20250>>,   \* '答辩委员会'
       <<20316, 32773, 31614, 21517>>   \* '作者签名'
    >>
TOPIC_HINT_KEYWORDS ==
    << <<115, 110, 99, 114, 110, 97>>,   \* 'sncrna'
       <<109, 105, 114, 110, 97>>,   \* 'mirna'
       <<112, 105, 114, 110, 97>>,   \* 'pirna'
       <<116, 100, 114>>,   \* 'tdr'
       <<114, 114, 102>>,   \* 'rrf'
       <<99, 97, 110, 99, 101, 114>>,   \* 'cancer'
       <<112, 97, 110, 45, 99, 97, 110, 99, 101, 114>>,   \* 'pan-cancer'
       <<100, 97, 116, 97, 98, 97, 115, 101>>,   \* 'database'
       <<112, 99, 115, 114, 110, 97, 100, 98>>,   \* 'pcsrnadb'
       <<112, 105, 112, 101, 108, 105, 110, 101>>,   \* 'pipeline'
       <<109, 101, 116, 104, 111, 100>>,   \* 'method'
       <<97, 110, 97, 108, 121, 115, 105, 115>>,   \* 'analysis'
       <<114, 101, 115, 117, 108, 116>>,   \* 'result'
       <<115, 117, 114, 118, 105, 118, 97, 108>>,   \* 'survival'
       <<100, 105, 102, 102, 101, 114, 101, 110, 116, 105, 97, 108>>,   \* 'differential'
       <<101, 120, 112, 114, 101, 115, 115, 105, 111, 110>>,   \* 'expression'
       <<116, 117, 109, 111, 114>>   \* 'tumor'
    >>
BACKGROUND_KEYWORDS ==
    << <<32972, 26223>>,   \* '背景'
       <<24847, 20041>>,   \* '意义'
       <<30446, 30340>>,   \* '目的'
       <<30171, 28857>>,   \* '痛点'
       <<29616, 29366>>,   \* '现状'
       <<105, 110, 116, 114, 111, 100, 117, 99, 116, 105, 111, 110>>,   \* 'introduction'
       <<98, 97, 99, 107, 103, 114, 111, 117, 110, 100>>,   \* 'background'
       <<99, 104, 97, 108, 108, 101, 110, 103, 101>>   \* 'challenge'
    >>
METHOD_KEYWORDS ==
    << <<26041, 27861>>,   \* '方法'
       <<27969, 31243>>,   \* '流程'
       <<25968, 25454>>,   \* '数据'
       <<25968, 25454, 24211>>,   \* '数据库'
       <<26500, 24314>>,   \* '构建'
       <<112, 105, 112, 101, 108, 105, 110, 101>>,   \* 'pipeline'
       <<109, 101, 116, 104, 111, 100>>,   \* 'method'
       <<100, 97, 116, 97, 115, 101, 116>>,   \* 'dataset'
       <<112, 114, 111, 99, 101, 115, 115, 105, 110, 103>>,   \* 'processing'
       <<97, 110, 97, 108, 121, 115, 105, 115, 32, 119, 111, 114, 107, 102, 108, 111, 119>>   \* 'analysis workflow'
    >>
RESULT_KEYWORDS ==
    << <<32467, 26524>>,   \* '结果'
       <<21457, 29616>>,   \* '发现'
       <<25552, 21319>>,   \* '提升'
       <<26174, 33879>>,   \* '显著'
       <<39564, 35777>>,   \* '验证'
       <<114, 101, 115, 117, 108, 116>>,   \* 'result'
       <<102, 105, 110, 100, 105, 110, 103>>,   \* 'finding'
       <<115, 117, 114, 118, 105, 118, 97, 108>>,   \* 'survival'
       <<100, 105, 102, 102, 101, 114, 101, 110, 116, 105, 97, 108>>,   \* 'differential'
       <<112, 101, 114, 102, 111, 114, 109, 97, 110, 99, 101>>,   \* 'performance'
       <<97, 115, 115, 111, 99, 105, 97, 116, 105, 111, 110>>   \* 'association'
    >>
OUTLOOK_KEYWORDS ==
    << <<23637, 26395>>,   \* '展望'
       <<26410, 26469>>,   \* '未来'
       <<23616, 38480>>,   \* '局限'
       <<19979, 19968, 27493>>,   \* '下一步'
       <<100, 105, 115, 99, 117, 115, 115, 105, 111, 110>>,   \* 'discussion'
       <<99, 111, 110, 99, 108, 117, 115, 105, 111, 110>>,   \* 'conclusion'
       <<102, 117, 116, 117, 114, 101>>,   \* 'future'
       <<108, 105, 109, 105, 116, 97, 116, 105, 111, 110>>   \* 'limitation'
    >>

\* ----------------------------------------------------------------------
\* Fallback library (build_outline.py, lines 133-154)
\* ----------------------------------------------------------------------
FALLBACK_background ==
    << <<26412, 30740, 31350, 20851, 27880, 36328, 30284, 31181, 23567, 82, 78, 65, 36164, 28304, 20998,
        25955, 12289, 21475, 24452, 19981, 19968, 33268, 23548, 33268, 30340, 20998, 26512, 22797, 29992,
        22256, 38590, 12290>>,   \* '本研究关注跨癌种小RNA资源分散、口径不一致导致的分析复用困难。'
       <<26680, 24515, 30446, 26631, 26159, 24314, 31435, 32479, 19968, 12289, 21487, 36861, 28335, 12289,
        21487, 27604, 36739, 30340, 25968, 25454, 36164, 28304, 20307, 31995, 65292, 38477, 20302, 37325,
        22797, 25972, 29702, 25104, 26412, 12290>>,   \* '核心目标是建立统一、可追溯、可比较的数据资源体系，降低重复整理成本。'
       <<30740, 31350, 38382, 39064, 22260, 32469, 20020, 24202, 35299, 37322, 38656, 27714, 19982, 31639,
        27861, 22788, 29702, 35268, 33539, 20043, 38388, 30340, 21327, 21516, 23637, 24320, 12290>>   \* '研究问题围绕临床解释需求与算法处理规范之间的协同展开。'
    >>
FALLBACK_methodology ==
    << <<26041, 27861, 19978, 37319, 29992, 26631, 20934, 21270, 27969, 31243, 23436, 25104, 25968, 25454,
        25910, 38598, 12289, 36136, 37327, 31579, 36873, 12289, 27880, 37322, 26144, 23556, 21644, 25351,
        26631, 35745, 31639, 12290>>,   \* '方法上采用标准化流程完成数据收集、质量筛选、注释映射和指标计算。'
       <<36890, 36807, 32479, 19968, 20803, 25968, 25454, 32467, 26500, 36830, 25509, 26679, 26412, 12289,
        30284, 31181, 12289, 20998, 23376, 31867, 22411, 19982, 20998, 26512, 32467, 26524, 65292, 20445,
        35777, 26816, 32034, 19968, 33268, 24615, 12290>>,   \* '通过统一元数据结构连接样本、癌种、分子类型与分析结果，保证检索一致性。'
       <<20851, 38190, 27493, 39588, 20445, 30041, 29256, 26412, 20449, 24687, 21644, 22788, 29702, 21442,
        25968, 65292, 25903, 25745, 22797, 29616, 19982, 21518, 32493, 36845, 20195, 12290>>   \* '关键步骤保留版本信息和处理参数，支撑复现与后续迭代。'
    >>
FALLBACK_results ==
    << <<32467, 26524, 26174, 31034, 36164, 28304, 24211, 33021, 22815, 31283, 23450, 25903, 25345, 36328,
        38431, 21015, 27604, 36739, 65292, 24182, 25552, 20379, 21487, 35299, 37322, 30340, 24046, 24322,
        34920, 36798, 32447, 32034, 12290>>,   \* '结果显示资源库能够稳定支持跨队列比较，并提供可解释的差异表达线索。'
       <<22312, 20195, 34920, 24615, 20219, 21153, 20013, 65292, 20851, 38190, 25351, 26631, 34920, 29616,
        19982, 26082, 26377, 30740, 31350, 36235, 21183, 19968, 33268, 65292, 39564, 35777, 20102, 27969,
        31243, 21487, 38752, 24615, 12290>>,   \* '在代表性任务中，关键指标表现与既有研究趋势一致，验证了流程可靠性。'
       <<24179, 21488, 21270, 32452, 32455, 26174, 33879, 25552, 21319, 20102, 20174, 38382, 39064, 25552,
        20986, 21040, 35777, 25454, 23450, 20301, 30340, 25928, 29575, 12290>>   \* '平台化组织显著提升了从问题提出到证据定位的效率。'
    >>
FALLBACK_outlook ==
    << <<19979, 19968, 27493, 23558, 25193, 23637, 26356, 22810, 20844, 24320, 38431, 21015, 24182, 25345,
        32493, 23436, 21892, 20020, 24202, 27880, 37322, 23383, 27573, 12290>>,   \* '下一步将扩展更多公开队列并持续完善临床注释字段。'
       <<35745, 21010, 22686, 24378, 20132, 20114, 21487, 35270, 21270, 19982, 32467, 26524, 23548, 20986,
        33021, 21147, 65292, 25552, 21319, 19968, 32447, 30740, 31350, 22330, 26223, 21487, 29992, 24615,
        12290>>,   \* '计划增强交互可视化与结果导出能力，提升一线研究场景可用性。'
       <<21518, 32493, 23558, 22260, 32469, 36716, 21270, 20215, 20540, 24320, 23637, 26356, 31995, 32479,
        30340, 22806, 37096, 39564, 35777, 19982, 21327, 20316, 12290>>   \* '后续将围绕转化价值开展更系统的外部验证与协作。'
    >>
SECTION_FALLBACKS ==
    [background |-> FALLBACK_background, methodology |-> FALLBACK_methodology,
     results |-> FALLBACK_results, outlook |-> FALLBACK_outlook]

\* ----------------------------------------------------------------------
\* Extractor pattern table (extract_materials.py, lines 23-32)
\* ----------------------------------------------------------------------
REBUTTAL_FILE_PATTERNS ==
    << <<114, 101, 115, 112, 111, 110, 115, 101, 32, 116, 111, 32, 114, 101, 102, 101, 114, 101, 101, 115>>,   \* 'response to referees'
       <<114, 101, 115, 112, 111, 110, 115, 101, 32, 116, 111, 32, 114, 101, 118, 105, 101, 119, 101, 114,
        115>>,   \* 'response to reviewers'
       <<114, 101, 98, 117, 116, 116, 97, 108>>,   \* 'rebuttal'
       <<112, 111, 105, 110, 116, 45, 98, 121, 45, 112, 111, 105, 110, 116>>,   \* 'point-by-point'
       <<23457, 31295>>,   \* '审稿'
       <<22238, 22797>>,   \* '回复'
       <<114, 101, 102, 101, 114, 101, 101>>,   \* 'referee'
       <<114, 101, 118, 105, 101, 119, 101, 114>>   \* 'reviewer'
    >>

\* ----------------------------------------------------------------------
\* Literals used inside the functions of build_outline.py
\* ----------------------------------------------------------------------
\* ELLIPSIS: '…'
ELLIPSIS == <<8230>>
\* SCRIPT_SEPARATOR: '；'
SCRIPT_SEPARATOR == <<65307>>
\* SPACE: ' '
SPACE == <<32>>
\* AT_SIGN: '@'
AT_SIGN == <<64>>
\* PPT_INPUT_MARKER: '既有演示材料输入'
PPT_INPUT_MARKER == <<26082, 26377, 28436, 31034, 26448, 26009, 36755, 20837>>
THESIS_MARKERS ==
    << <<23398, 20301, 35770, 25991>>,   \* '学位论文'
       <<27605, 19994, 35770, 25991>>   \* '毕业论文'
    >>
COPYRIGHT_MARKERS ==
    << <<99, 111, 112, 121, 114, 105, 103, 104, 116>>,   \* 'copyright'
       <<97, 108, 108, 32, 114, 105, 103, 104, 116, 115, 32, 114, 101, 115, 101, 114, 118, 101, 100>>   \* 'all rights reserved'
    >>
\* KIND_docx: 'docx'
KIND_docx == <<100, 111, 99, 120>>
\* KIND_pdf: 'pdf'
KIND_pdf == <<112, 100, 102>>
\* KIND_pptx: 'pptx'
KIND_pptx == <<112, 112, 116, 120>>
\* GENERIC_SCRIPT: '按本页三点顺序讲解，先结论后证据，最后落到行动建议。'
GENERIC_SCRIPT == <<25353, 26412, 39029, 19977, 28857, 39034, 24207, 35762, 35299, 65292, 20808, 32467,
    35770, 21518, 35777, 25454, 65292, 26368, 21518, 33853, 21040, 34892, 21160, 24314, 35758, 12290>>
\* DESIGN_RATIONALE: '本页采用结构化文本与简单信息图组合，目标是在无口头讲解前提下让读者独立理解关键结论、证据来源与逻辑关系。'
DESIGN_RATIONALE == <<26412, 39029, 37319, 29992, 32467, 26500, 21270, 25991, 26412, 19982, 31616, 21333,
    20449, 24687, 22270, 32452, 21512, 65292, 30446, 26631, 26159, 22312, 26080, 21475, 22836, 35762,
    35299, 21069, 25552, 19979, 35753, 35835, 32773, 29420, 31435, 29702, 35299, 20851, 38190, 32467,
    35770, 12289, 35777, 25454, 26469, 28304, 19982, 36923, 36753, 20851, 31995, 12290>>
\* DEFAULT_TITLE: '毕业论文与论文工作汇报'
DEFAULT_TITLE == <<27605, 19994, 35770, 25991, 19982, 35770, 25991, 24037, 20316, 27719, 25253>>
\* SUBTITLE_PART1: '面向'
SUBTITLE_PART1 == <<38754, 21521>>
\* SUBTITLE_PART2: ' | 角色: '
SUBTITLE_PART2 == <<32, 124, 32, 35282, 33394, 58, 32>>
\* SUBTITLE_PART3: ' | 目标: '
SUBTITLE_PART3 == <<32, 124, 32, 30446, 26631, 58, 32>>
AGENDA_PRESENTATION ==
    << <<30740, 31350, 32972, 26223, 65306, 38382, 39064, 23450, 20041, 19982, 30740, 31350, 21160, 26426>>,   \* '研究背景：问题定义与研究动机'
       <<30740, 31350, 26041, 27861, 65306, 25216, 26415, 36335, 32447, 19982, 23454, 29616, 27969, 31243>>,   \* '研究方法：技术路线与实现流程'
       <<30740, 31350, 32467, 26524, 65306, 26680, 24515, 21457, 29616, 19982, 39564, 35777, 35777, 25454>>,   \* '研究结果：核心发现与验证证据'
       <<30740, 31350, 23637, 26395, 65306, 20215, 20540, 24635, 32467, 19982, 21518, 32493, 35745, 21010>>   \* '研究展望：价值总结与后续计划'
    >>
AGENDA_DENSE ==
    << <<30740, 31350, 32972, 26223, 65306, 35828, 26126, 20020, 24202, 19982, 31185, 30740, 22330, 26223,
        20013, 25968, 25454, 20998, 25955, 12289, 21475, 24452, 19981, 32479, 19968, 24102, 26469, 30340,
        20998, 26512, 38556, 30861, 19982, 30740, 31350, 21160, 26426>>,   \* '研究背景：说明临床与科研场景中数据分散、口径不统一带来的分析障碍与研究动机'
       <<30740, 31350, 26041, 27861, 65306, 20132, 20195, 26679, 26412, 26469, 28304, 12289, 22788, 29702,
        27969, 31243, 12289, 32479, 35745, 31574, 30053, 21644, 25968, 25454, 32452, 32455, 26041, 24335,
        65292, 30830, 20445, 21487, 22797, 29616, 19982, 21487, 36861, 28335>>,   \* '研究方法：交代样本来源、处理流程、统计策略和数据组织方式，确保可复现与可追溯'
       <<30740, 31350, 32467, 26524, 65306, 23637, 31034, 20851, 38190, 21457, 29616, 12289, 39564, 35777,
        24605, 36335, 19982, 20195, 34920, 24615, 20998, 26512, 32467, 35770, 65292, 24418, 25104, 28165,
        26224, 35777, 25454, 38142>>,   \* '研究结果：展示关键发现、验证思路与代表性分析结论，形成清晰证据链'
       <<30740, 31350, 23637, 26395, 65306, 24635, 32467, 30740, 31350, 20215, 20540, 12289, 24050, 30693,
        23616, 38480, 19982, 19979, 19968, 38454, 27573, 25193, 23637, 26041, 21521, 65292, 26126, 30830,
        33853, 22320, 36335, 24452>>   \* '研究展望：总结研究价值、已知局限与下一阶段扩展方向，明确落地路径'
    >>
\* TITLE_agenda: '汇报结构'
TITLE_agenda == <<27719, 25253, 32467, 26500>>
\* TITLE_divider1: '一、研究背景'
TITLE_divider1 == <<19968, 12289, 30740, 31350, 32972, 26223>>
\* TITLE_divider2: '二、研究方法'
TITLE_divider2 == <<20108, 12289, 30740, 31350, 26041, 27861>>
\* TITLE_divider3: '三、研究结果'
TITLE_divider3 == <<19977, 12289, 30740, 31350, 32467, 26524>>
\* TITLE_divider4: '四、研究展望'
TITLE_divider4 == <<22235, 12289, 30740, 31350, 23637, 26395>>
\* TITLE_background: '研究背景与问题定义'
TITLE_background == <<30740, 31350, 32972, 26223, 19982, 38382, 39064, 23450, 20041>>
\* TITLE_methodology: '研究方法与技术路线'
TITLE_methodology == <<30740, 31350, 26041, 27861, 19982, 25216, 26415, 36335, 32447>>
\* TITLE_results: '研究结果与核心发现'
TITLE_results == <<30740, 31350, 32467, 26524, 19982, 26680, 24515, 21457, 29616>>
\* TITLE_outlook: '研究展望与后续工作'
TITLE_outlook == <<30740, 31350, 23637, 26395, 19982, 21518, 32493, 24037, 20316>>
\* TITLE_conclusion: '结论与答辩要点'
TITLE_conclusion == <<32467, 35770, 19982, 31572, 36777, 35201, 28857>>
\* TITLE_qa: 'Q&A / Thank You'
TITLE_qa == <<81, 38, 65, 32, 47, 32, 84, 104, 97, 110, 107, 32, 89, 111, 117>>
CONCLUSION_CONTENT ==
    << <<26412, 30740, 31350, 23436, 25104, 20102, 36328, 30284, 31181, 23567, 82, 78, 65, 36164, 28304,
        25972, 21512, 30340, 26694, 26550, 26500, 24314, 65292, 24182, 24418, 25104, 21487, 22797, 29992,
        25968, 25454, 24213, 24231, 12290>>,   \* '本研究完成了跨癌种小RNA资源整合的框架构建，并形成可复用数据底座。'
       <<26041, 27861, 19982, 32467, 26524, 22260, 32469, 21487, 36861, 28335, 12289, 21487, 27604, 36739,
        12289, 21487, 35299, 37322, 19977, 20010, 32500, 24230, 24314, 31435, 35777, 25454, 38142, 12290>>,   \* '方法与结果围绕可追溯、可比较、可解释三个维度建立证据链。'
       <<31572, 36777, 24314, 35758, 32858, 28966, 30740, 31350, 20215, 20540, 12289, 26041, 27861, 21487,
        20449, 24615, 19982, 26410, 26469, 25193, 23637, 19977, 26465, 20027, 32447, 12290>>   \* '答辩建议聚焦研究价值、方法可信性与未来扩展三条主线。'
    >>
QA_CONTENT ==
    << <<27426, 36814, 22260, 32469, 30740, 31350, 35774, 35745, 12289, 32479, 35745, 31574, 30053, 19982,
        20020, 24202, 20215, 20540, 25552, 20986, 38382, 39064, 12290>>,   \* '欢迎围绕研究设计、统计策略与临床价值提出问题。'
       <<22914, 38656, 22797, 29616, 27969, 31243, 65292, 21487, 25353, 35770, 25991, 19982, 25991, 31456,
        20013, 30340, 20844, 24320, 26469, 28304, 21644, 29256, 26412, 35828, 26126, 25191, 34892, 12290>>   \* '如需复现流程，可按论文与文章中的公开来源和版本说明执行。'
    >>
\* STYLE_rigorous: '专业严谨'
STYLE_rigorous == <<19987, 19994, 20005, 35880>>
\* STYLE_popular: '生动科普'
STYLE_popular == <<29983, 21160, 31185, 26222>>
\* STYLE_balanced: '平衡'
STYLE_balanced == <<24179, 34913>>
\* SOURCE_agenda: '结构规划'
SOURCE_agenda == <<32467, 26500, 35268, 21010>>
\* SOURCE_background: '论文背景章节'
SOURCE_background == <<35770, 25991, 32972, 26223, 31456, 33410>>
\* SOURCE_methodology: '论文方法章节'
SOURCE_methodology == <<35770, 25991, 26041, 27861, 31456, 33410>>
\* SOURCE_results: '论文结果章节'
SOURCE_results == <<35770, 25991, 32467, 26524, 31456, 33410>>
\* SOURCE_outlook: '总结与展望'
SOURCE_outlook == <<24635, 32467, 19982, 23637, 26395>>
\* SOURCE_conclusion: '答辩收束页'
SOURCE_conclusion == <<31572, 36777, 25910, 26463, 39029>>
\* SOURCE_qa: '结束页'
SOURCE_qa == <<32467, 26463, 39029>>
\* DEFAULT_speaker_role: '医学AI专家'
DEFAULT_speaker_role == <<21307, 23398, 65, 73, 19987, 23478>>
\* DEFAULT_audience_profile: '一线医生'
DEFAULT_audience_profile == <<19968, 32447, 21307, 29983>>
\* DEFAULT_core_goal: '知识传递与建立信任'
DEFAULT_core_goal == <<30693, 35782, 20256, 36882, 19982, 24314, 31435, 20449, 20219>>
\* DEFAULT_content_depth: '专业翔实'
DEFAULT_content_depth == <<19987, 19994, 32724, 23454>>
\* DEFAULT_citation_policy: 'public_sources_only'
DEFAULT_citation_policy == <<112, 117, 98, 108, 105, 99, 95, 115, 111, 117, 114, 99, 101, 115, 95, 111,
    110, 108, 121>>

\* ----------------------------------------------------------------------
\* Numeric literals of build_outline.py
\* ----------------------------------------------------------------------
CJK_FIRST == 19968
CJK_LAST == 40959
NOISE_MAX_LEN == 420
MIN_POINT_LEN == 15
COLLECT_LIMIT == 180
QUALITY_MIN_LEN == 30
QUALITY_MAX_LEN == 190
SIZE_PRESENTATION == 3
SIZE_DENSE == 4
LIMIT_PRESENTATION == 78
LIMIT_DENSE == 190
SCRIPT_ITEMS == 4
DEFAULT_SLIDE_COUNT == 18
MIN_SLIDE_COUNT == 8
DEFAULT_MINUTES == 1
MIN_MINUTES == 1

\* ----------------------------------------------------------------------
\* Input texts the specifications draw from
\* ----------------------------------------------------------------------
\* P_bg: '研究背景：当前缺乏跨癌种小RNA统一资源，影响可比性分析。'
P_bg == <<30740, 31350, 32972, 26223, 65306, 24403, 21069, 32570, 20047, 36328, 30284, 31181, 23567, 82,
    78, 65, 32479, 19968, 36164, 28304, 65292, 24433, 21709, 21487, 27604, 24615, 20998, 26512, 12290>>
\* P_method: '研究方法：构建标准化处理流程并建立统一注释体系。'
P_method == <<30740, 31350, 26041, 27861, 65306, 26500, 24314, 26631, 20934, 21270, 22788, 29702, 27969,
    31243, 24182, 24314, 31435, 32479, 19968, 27880, 37322, 20307, 31995, 12290>>
\* P_result: '研究结果：在多癌种队列中识别到稳定差异表达信号并完成生存关联分析。'
P_result == <<30740, 31350, 32467, 26524, 65306, 22312, 22810, 30284, 31181, 38431, 21015, 20013, 35782,
    21035, 21040, 31283, 23450, 24046, 24322, 34920, 36798, 20449, 21495, 24182, 23436, 25104, 29983,
    23384, 20851, 32852, 20998, 26512, 12290>>
\* P_outlook: '研究展望：扩展样本规模并增强临床转化应用。'
P_outlook == <<30740, 31350, 23637, 26395, 65306, 25193, 23637, 26679, 26412, 35268, 27169, 24182, 22686,
    24378, 20020, 24202, 36716, 21270, 24212, 29992, 12290>>
\* P_bg_method: '研究背景与方法：现状调研之后构建处理流程。'
P_bg_method == <<30740, 31350, 32972, 26223, 19982, 26041, 27861, 65306, 29616, 29366, 35843, 30740, 20043,
    21518, 26500, 24314, 22788, 29702, 27969, 31243, 12290>>
\* P_method_result: '方法与结果：流程验证后性能显著提升并稳定。'
P_method_result == <<26041, 27861, 19982, 32467, 26524, 65306, 27969, 31243, 39564, 35777, 21518, 24615,
    33021, 26174, 33879, 25552, 21319, 24182, 31283, 23450, 12290>>
\* P_plain1: '我们整理了多个癌种的小RNA样本信息并完成注释。'
P_plain1 == <<25105, 20204, 25972, 29702, 20102, 22810, 20010, 30284, 31181, 30340, 23567, 82, 78, 65,
    26679, 26412, 20449, 24687, 24182, 23436, 25104, 27880, 37322, 12290>>
\* P_plain2: '平台提供检索、浏览与下载等常用功能入口设计。'
P_plain2 == <<24179, 21488, 25552, 20379, 26816, 32034, 12289, 27983, 35272, 19982, 19979, 36733, 31561,
    24120, 29992, 21151, 33021, 20837, 21475, 35774, 35745, 12290>>
\* P_plain3: '样本来自多个公开队列并按照癌种进行分组整理。'
P_plain3 == <<26679, 26412, 26469, 33258, 22810, 20010, 20844, 24320, 38431, 21015, 24182, 25353, 29031,
    30284, 31181, 36827, 34892, 20998, 32452, 25972, 29702, 12290>>
\* P_plain4: '所有条目均附带来源说明与版本记录以便追溯。'
P_plain4 == <<25152, 26377, 26465, 30446, 22343, 38468, 24102, 26469, 28304, 35828, 26126, 19982, 29256,
    26412, 35760, 24405, 20197, 20415, 36861, 28335, 12290>>
\* P_plain5: '界面支持按癌种与分子类型进行组合筛选浏览。'
P_plain5 == <<30028, 38754, 25903, 25345, 25353, 30284, 31181, 19982, 20998, 23376, 31867, 22411, 36827,
    34892, 32452, 21512, 31579, 36873, 27983, 35272, 12290>>
\* P_eng_topic: 'The dataset covers pan-cancer cohorts and multiple RNA categories.'
P_eng_topic == <<84, 104, 101, 32, 100, 97, 116, 97, 115, 101, 116, 32, 99, 111, 118, 101, 114, 115, 32,
    112, 97, 110, 45, 99, 97, 110, 99, 101, 114, 32, 99, 111, 104, 111, 114, 116, 115, 32, 97, 110, 100,
    32, 109, 117, 108, 116, 105, 112, 108, 101, 32, 82, 78, 65, 32, 99, 97, 116, 101, 103, 111, 114, 105,
    101, 115, 46>>
\* P_eng_plain: 'Quality control and transparent metadata are important design principles.'
P_eng_plain == <<81, 117, 97, 108, 105, 116, 121, 32, 99, 111, 110, 116, 114, 111, 108, 32, 97, 110, 100,
    32, 116, 114, 97, 110, 115, 112, 97, 114, 101, 110, 116, 32, 109, 101, 116, 97, 100, 97, 116, 97, 32,
    97, 114, 101, 32, 105, 109, 112, 111, 114, 116, 97, 110, 116, 32, 100, 101, 115, 105, 103, 110, 32,
    112, 114, 105, 110, 99, 105, 112, 108, 101, 115, 46>>
\* P_email: 'Email: author@example.com Correspondence may also be addressed to someone.'
P_email == <<69, 109, 97, 105, 108, 58, 32, 97, 117, 116, 104, 111, 114, 64, 101, 120, 97, 109, 112, 108,
    101, 46, 99, 111, 109, 32, 67, 111, 114, 114, 101, 115, 112, 111, 110, 100, 101, 110, 99, 101, 32, 109,
    97, 121, 32, 97, 108, 115, 111, 32, 98, 101, 32, 97, 100, 100, 114, 101, 115, 115, 101, 100, 32, 116,
    111, 32, 115, 111, 109, 101, 111, 110, 101, 46>>
\* P_at: '联系作者 huang@mail 获取更多癌种样本信息。'
P_at == <<32852, 31995, 20316, 32773, 32, 104, 117, 97, 110, 103, 64, 109, 97, 105, 108, 32, 33719, 21462,
    26356, 22810, 30284, 31181, 26679, 26412, 20449, 24687, 12290>>
\* P_url: 'The analysis pipeline and all processed tables are available at https://example.org/pcsrnadb for cancer data.'
P_url == <<84, 104, 101, 32, 97, 110, 97, 108, 121, 115, 105, 115, 32, 112, 105, 112, 101, 108, 105, 110,
    101, 32, 97, 110, 100, 32, 97, 108, 108, 32, 112, 114, 111, 99, 101, 115, 115, 101, 100, 32, 116, 97,
    98, 108, 101, 115, 32, 97, 114, 101, 32, 97, 118, 97, 105, 108, 97, 98, 108, 101, 32, 97, 116, 32, 104,
    116, 116, 112, 115, 58, 47, 47, 101, 120, 97, 109, 112, 108, 101, 46, 111, 114, 103, 47, 112, 99, 115,
    114, 110, 97, 100, 98, 32, 102, 111, 114, 32, 99, 97, 110, 99, 101, 114, 32, 100, 97, 116, 97, 46>>
\* P_URL_upper: 'THE PIPELINE IS AT HTTP://EXAMPLE.ORG FOR CANCER.'
P_URL_upper == <<84, 72, 69, 32, 80, 73, 80, 69, 76, 73, 78, 69, 32, 73, 83, 32, 65, 84, 32, 72, 84, 84,
    80, 58, 47, 47, 69, 88, 65, 77, 80, 76, 69, 46, 79, 82, 71, 32, 70, 79, 82, 32, 67, 65, 78, 67, 69, 82,
    46>>
\* P_doi: '全文见 doi.org/10.1000/xyz 的癌种数据库论文。'
P_doi == <<20840, 25991, 35265, 32, 100, 111, 105, 46, 111, 114, 103, 47, 49, 48, 46, 49, 48, 48, 48, 47,
    120, 121, 122, 32, 30340, 30284, 31181, 25968, 25454, 24211, 35770, 25991, 12290>>
\* P_reviewer: 'Reviewer 1 requested additional validation experiments.'
P_reviewer == <<82, 101, 118, 105, 101, 119, 101, 114, 32, 49, 32, 114, 101, 113, 117, 101, 115, 116, 101,
    100, 32, 97, 100, 100, 105, 116, 105, 111, 110, 97, 108, 32, 118, 97, 108, 105, 100, 97, 116, 105, 111,
    110, 32, 101, 120, 112, 101, 114, 105, 109, 101, 110, 116, 115, 46>>
\* P_REFEREE: 'The REFEREE asked about pipeline validation.'
P_REFEREE == <<84, 104, 101, 32, 82, 69, 70, 69, 82, 69, 69, 32, 97, 115, 107, 101, 100, 32, 97, 98, 111,
    117, 116, 32, 112, 105, 112, 101, 108, 105, 110, 101, 32, 118, 97, 108, 105, 100, 97, 116, 105, 111,
    110, 46>>
\* P_shengao: '根据审稿意见补充了方法学验证实验结果。'
P_shengao == <<26681, 25454, 23457, 31295, 24847, 35265, 34917, 20805, 20102, 26041, 27861, 23398, 39564,
    35777, 23454, 39564, 32467, 26524, 12290>>
\* P_short: '方法与数据'
P_short == <<26041, 27861, 19982, 25968, 25454>>
\* F_thesis: '中山大学硕士学位论文-黄仁德.docx'
F_thesis == <<20013, 23665, 22823, 23398, 30805, 22763, 23398, 20301, 35770, 25991, 45, 40644, 20161,
    24503, 46, 100, 111, 99, 120>>
\* F_referees: 'Response to referees.docx'
F_referees == <<82, 101, 115, 112, 111, 110, 115, 101, 32, 116, 111, 32, 114, 101, 102, 101, 114, 101, 101,
    115, 46, 100, 111, 99, 120>>
\* F_REBUTTAL: 'REBUTTAL-v2.pdf'
F_REBUTTAL == <<82, 69, 66, 85, 84, 84, 65, 76, 45, 118, 50, 46, 112, 100, 102>>
\* F_shengao: '审稿意见回复.docx'
F_shengao == <<23457, 31295, 24847, 35265, 22238, 22797, 46, 100, 111, 99, 120>>
\* F_point_by_point: 'point-by-point answers.docx'
F_point_by_point == <<112, 111, 105, 110, 116, 45, 98, 121, 45, 112, 111, 105, 110, 116, 32, 97, 110, 115,
    119, 101, 114, 115, 46, 100, 111, 99, 120>>
\* F_paper: 'gkaf992.pdf'
F_paper == <<103, 107, 97, 102, 57, 57, 50, 46, 112, 100, 102>>
\* F_deck: 'slides.pptx'
F_deck == <<115, 108, 105, 100, 101, 115, 46, 112, 112, 116, 120>>
\* P_deck: '该文件作为既有演示材料输入，可用于抽取视觉风格与图像素材。'
P_deck == <<35813, 25991, 20214, 20316, 20026, 26082, 26377, 28436, 31034, 26448, 26009, 36755, 20837,
    65292, 21487, 29992, 20110, 25277, 21462, 35270, 35273, 39118, 26684, 19982, 22270, 20687, 32032,
    26448, 12290>>
\* P_plain1_ws: '  我们整理了多个癌种的小RNA样本信息并完成注释。\n'
P_plain1_ws == <<32, 32, 25105, 20204, 25972, 29702, 20102, 22810, 20010, 30284, 31181, 30340, 23567, 82,
    78, 65, 26679, 26412, 20449, 24687, 24182, 23436, 25104, 27880, 37322, 12290, 10>>
\* F_notes: 'notes.docx'
F_notes == <<110, 111, 116, 101, 115, 46, 100, 111, 99, 120>>
\* F_readme: 'readme.md'
F_readme == <<114, 101, 97, 100, 109, 101, 46, 109, 100>>
\* KIND_md: 'md'
KIND_md == <<109, 100>>
\* T_78: a text of 78 characters, '平台整合多癌种小RNA表…息并提供统一'
T_78 == <<24179, 21488, 25972, 21512, 22810, 30284, 31181, 23567, 82, 78, 65, 34920, 36798, 35889, 19982,
    20020, 24202, 27880, 37322, 20449, 24687, 24182, 25552, 20379, 32479, 19968, 26816, 32034,
    27983, 35272, 19979, 36733, 20837, 21475, 20197, 25903, 25345, 36328, 38431, 21015, 27604,
    36739, 20998, 26512, 21644, 29983, 29289, 26631, 24535, 29289, 31579, 36873, 24179, 21488,
    25972, 21512, 22810, 30284, 31181, 23567, 82, 78, 65, 34920, 36798, 35889, 19982, 20020, 24202,
    27880, 37322, 20449, 24687, 24182, 25552, 20379, 32479, 19968>>
\* T_79: the same text with one more character
T_79 == <<24179, 21488, 25972, 21512, 22810, 30284, 31181, 23567, 82, 78, 65, 34920, 36798, 35889, 19982,
    20020, 24202, 27880, 37322, 20449, 24687, 24182, 25552, 20379, 32479, 19968, 26816, 32034,
    27983, 35272, 19979, 36733, 20837, 21475, 20197, 25903, 25345, 36328, 38431, 21015, 27604,
    36739, 20998, 26512, 21644, 29983, 29289, 26631, 24535, 29289, 31579, 36873, 24179, 21488,
    25972, 21512, 22810, 30284, 31181, 23567, 82, 78, 65, 34920, 36798, 35889, 19982, 20020, 24202,
    27880, 37322, 20449, 24687, 24182, 25552, 20379, 32479, 19968, 26816>>
\* T_190: the same text repeated to 190 characters
T_190 == <<24179, 21488, 25972, 21512, 22810, 30284, 31181, 23567, 82, 78, 65, 34920, 36798, 35889, 19982,
    20020, 24202, 27880, 37322, 20449, 24687, 24182, 25552, 20379, 32479, 19968, 26816, 32034,
    27983, 35272, 19979, 36733, 20837, 21475, 20197, 25903, 25345, 36328, 38431, 21015, 27604,
    36739, 20998, 26512, 21644, 29983, 29289, 26631, 24535, 29289, 31579, 36873, 24179, 21488,
    25972, 21512, 22810, 30284, 31181, 23567, 82, 78, 65, 34920, 36798, 35889, 19982, 20020, 24202,
    27880, 37322, 20449, 24687, 24182, 25552, 20379, 32479, 19968, 26816, 32034, 27983, 35272,
    19979, 36733, 20837, 21475, 20197, 25903, 25345, 36328, 38431, 21015, 27604, 36739, 20998,
    26512, 21644, 29983, 29289, 26631, 24535, 29289, 31579, 36873, 24179, 21488, 25972, 21512,
    22810, 30284, 31181, 23567, 82, 78, 65, 34920, 36798, 35889, 19982, 20020, 24202, 27880, 37322,
    20449, 24687, 24182, 25552, 20379, 32479, 19968, 26816, 32034, 27983, 35272, 19979, 36733,
    20837, 21475, 20197, 25903, 25345, 36328, 38431, 21015, 27604, 36739, 20998, 26512, 21644,
    29983, 29289, 26631, 24535, 29289, 31579, 36873, 24179, 21488, 25972, 21512, 22810, 30284,
    31181, 23567, 82, 78, 65, 34920, 36798, 35889, 19982, 20020, 24202, 27880, 37322, 20449, 24687,
    24182, 25552, 20379, 32479, 19968, 26816, 32034, 27983, 35272, 19979, 36733, 20837, 21475>>
\* T_cut_at_space: 76 characters of it, a space, 'annotation pipeline'
T_cut_at_space == <<24179, 21488, 25972, 21512, 22810, 30284, 31181, 23567, 82, 78, 65, 34920, 36798, 35889, 19982,
    20020, 24202, 27880, 37322, 20449, 24687, 24182, 25552, 20379, 32479, 19968, 26816, 32034,
    27983, 35272, 19979, 36733, 20837, 21475, 20197, 25903, 25345, 36328, 38431, 21015, 27604,
    36739, 20998, 26512, 21644, 29983, 29289, 26631, 24535, 29289, 31579, 36873, 24179, 21488,
    25972, 21512, 22810, 30284, 31181, 23567, 82, 78, 65, 34920, 36798, 35889, 19982, 20020, 24202,
    27880, 37322, 20449, 24687, 24182, 25552, 20379, 32, 97, 110, 110, 111, 116, 97, 116, 105, 111,
    110, 32, 112, 105, 112, 101, 108, 105, 110, 101>>
\* KIND_PDF: 'PDF'
KIND_PDF == <<80, 68, 70>>
\* P_long: '我们对来自多个公开队列的样本进行了统一的质量筛选与注释映射，并将所有条目按照癌种、分子类型与样本来源进行了分层组织，以便在不同分析任务中重复使用并保持口径一致。'
P_long == <<25105, 20204, 23545, 26469, 33258, 22810, 20010, 20844, 24320, 38431, 21015, 30340, 26679,
    26412, 36827, 34892, 20102, 32479, 19968, 30340, 36136, 37327, 31579, 36873, 19982, 27880, 37322,
    26144, 23556, 65292, 24182, 23558, 25152, 26377, 26465, 30446, 25353, 29031, 30284, 31181, 12289,
    20998, 23376, 31867, 22411, 19982, 26679, 26412, 26469, 28304, 36827, 34892, 20102, 20998, 23618,
    32452, 32455, 65292, 20197, 20415, 22312, 19981, 21516, 20998, 26512, 20219, 21153, 20013, 37325,
    22797, 20351, 29992, 24182, 20445, 25345, 21475, 24452, 19968, 33268, 12290>>
\* TEXT_abc: 'abc'
TEXT_abc == <<97, 98, 99>>
\* TEXT_no: 'no'
TEXT_no == <<110, 111>>
\* TEXT_5_padded: ' 5 '
TEXT_5_padded == <<32, 53, 32>>
\* IMG_1: '/tmp/image1.png'
IMG_1 == <<47, 116, 109, 112, 47, 105, 109, 97, 103, 101, 49, 46, 112, 110, 103>>
\* IMG_2: '/tmp/image2.png'
IMG_2 == <<47, 116, 109, 112, 47, 105, 109, 97, 103, 101, 50, 46, 112, 110, 103>>
\* PROJECT_TITLE: 'PCsRNAdb materials'
PROJECT_TITLE == <<80, 67, 115, 82, 78, 65, 100, 98, 32, 109, 97, 116, 101, 114, 105, 97, 108, 115>>
\* D_ab: 'a b'
D_ab == <<97, 32, 98>>
\* D_a_b2: 'a  b'
D_a_b2 == <<97, 32, 32, 98>>
\* D_ab_pad: ' a b\t'
D_ab_pad == <<32, 97, 32, 98, 9>>
\* D_Ab: 'A b'
D_Ab == <<65, 32, 98>>
\* D_b: 'b'
D_b == <<98>>
\* D_blank: ' \t '
D_blank == <<32, 9, 32>>
\* D_empty: ''
D_empty == <<>>
\* D_nl: 'a\nb'
D_nl == <<97, 10, 98>>
\* D_ideo: 'a\u3000b'
D_ideo == <<97, 12288, 98>>
\* P_result_long: '研究结果：在十二个癌种的队列中识别到稳定的差异表达信号，并在独立队列中重复出高度一致的表达趋势，同时完成了总体生存期与无进展生存期的关联分析，为后续的分子分型与临床分层提供了可以直接引用的证据基础。'
P_result_long == <<30740, 31350, 32467, 26524, 65306, 22312, 21313, 20108, 20010, 30284, 31181, 30340, 38431, 21015,
    20013, 35782, 21035, 21040, 31283, 23450, 30340, 24046, 24322, 34920, 36798, 20449, 21495, 65292,
    24182, 22312, 29420, 31435, 38431, 21015, 20013, 37325, 22797, 20986, 39640, 24230, 19968, 33268,
    30340, 34920, 36798, 36235, 21183, 65292, 21516, 26102, 23436, 25104, 20102, 24635, 20307, 29983,
    23384, 26399, 19982, 26080, 36827, 23637, 29983, 23384, 26399, 30340, 20851, 32852, 20998, 26512,
    65292, 20026, 21518, 32493, 30340, 20998, 23376, 20998, 22411, 19982, 20020, 24202, 20998, 23618,
    25552, 20379, 20102, 21487, 20197, 30452, 25509, 24341, 29992, 30340, 35777, 25454, 22522, 30784,
    12290>>
\* P_outlook_ws: '研究展望：  扩展样本规模\n并增强临床转化应用，  逐步纳入多中心队列。'
P_outlook_ws == <<30740, 31350, 23637, 26395, 65306, 32, 32, 25193, 23637, 26679, 26412, 35268, 27169, 10, 24182,
    22686, 24378, 20020, 24202, 36716, 21270, 24212, 29992, 65292, 32, 32, 36880, 27493, 32435, 20837,
    22810, 20013, 24515, 38431, 21015, 12290>>
\* P_result_outlook: '结果与展望：验证集上的表现保持稳定，未来将扩展到更多队列。'
P_result_outlook == <<32467, 26524, 19982, 23637, 26395, 65306, 39564, 35777, 38598, 19978, 30340, 34920, 29616, 20445,
    25345, 31283, 23450, 65292, 26410, 26469, 23558, 25193, 23637, 21040, 26356, 22810, 38431, 21015,
    12290>>
\* P_all_sections: '背景、方法、结果与展望四个部分构成本次汇报的主线。'
P_all_sections == <<32972, 26223, 12289, 26041, 27861, 12289, 32467, 26524, 19982, 23637, 26395, 22235, 20010, 37096,
    20998, 26500, 25104, 26412, 27425, 27719, 25253, 30340, 20027, 32447, 12290>>
\* P_outlook_ws with its whitespace collapsed
P_outlook_flat == <<30740, 31350, 23637, 26395, 65306, 32, 25193, 23637, 26679, 26412, 35268, 27169, 32, 24182, 22686,
    24378, 20020, 24202, 36716, 21270, 24212, 29992, 65292, 32, 36880, 27493, 32435, 20837, 22810,
    20013, 24515, 38431, 21015, 12290>>
\* P_copyright: 'Copyright 2024: the processing pipeline is documented for every cohort.'
P_copyright == <<67, 111, 112, 121, 114, 105, 103, 104, 116, 32, 50, 48, 50, 52, 58, 32, 116, 104, 101, 32, 112, 114,
    111, 99, 101, 115, 115, 105, 110, 103, 32, 112, 105, 112, 101, 108, 105, 110, 101, 32, 105, 115, 32,
    100, 111, 99, 117, 109, 101, 110, 116, 101, 100, 32, 102, 111, 114, 32, 101, 118, 101, 114, 121, 32,
    99, 111, 104, 111, 114, 116, 46>>
\* P_method_long: '研究方法：本研究首先从公开队列中整理原始测序文件，然后统一完成质量控制、接头去除、比对与定量等步骤，并在每一步保留版本信息与处理参数以便复核，并在每一步保留版本信息与处理参数以便复核，并在每一步保留版本信息与处理参数以便复核，并在每一步保留版本信息与处理参数以便复核，并在每一步保留版本信息与处理参数以便复核，并在每一步保留版本信息与处理参数以便复核，并在每一步保留版本信息与处理。'
P_method_long == <<30740, 31350, 26041, 27861, 65306, 26412, 30740, 31350, 39318, 20808, 20174, 20844, 24320, 38431,
    21015, 20013, 25972, 29702, 21407, 22987, 27979, 24207, 25991, 20214, 65292, 28982, 21518, 32479,
    19968, 23436, 25104, 36136, 37327, 25511, 21046, 12289, 25509, 22836, 21435, 38500, 12289, 27604,
    23545, 19982, 23450, 37327, 31561, 27493, 39588, 65292, 24182, 22312, 27599, 19968, 27493, 20445,
    30041, 29256, 26412, 20449, 24687, 19982, 22788, 29702, 21442, 25968, 20197, 20415, 22797, 26680,
    65292, 24182, 22312, 27599, 19968, 27493, 20445, 30041, 29256, 26412, 20449, 24687, 19982, 22788,
    29702, 21442, 25968, 20197, 20415, 22797, 26680, 65292, 24182, 22312, 27599, 19968, 27493, 20445,
    30041, 29256, 26412, 20449, 24687, 19982, 22788, 29702, 21442, 25968, 20197, 20415, 22797, 26680,
    65292, 24182, 22312, 27599, 19968, 27493, 20445, 30041, 29256, 26412, 20449, 24687, 19982, 22788,
    29702, 21442, 25968, 20197, 20415, 22797, 26680, 65292, 24182, 22312, 27599, 19968, 27493, 20445,
    30041, 29256, 26412, 20449, 24687, 19982, 22788, 29702, 21442, 25968, 20197, 20415, 22797, 26680,
    65292, 24182, 22312, 27599, 19968, 27493, 20445, 30041, 29256, 26412, 20449, 24687, 19982, 22788,
    29702, 21442, 25968, 20197, 20415, 22797, 26680, 65292, 24182, 22312, 27599, 19968, 27493, 20445,
    30041, 29256, 26412, 20449, 24687, 19982, 22788, 29702, 12290>>
\* P_len_420: 420 characters, '我们对来自多个公开队列的样本进行了统一整理与逐项核对，我' repeated
P_len_420 == <<25105, 20204, 23545, 26469, 33258, 22810, 20010, 20844, 24320, 38431, 21015, 30340, 26679, 26412,
    36827, 34892, 20102, 32479, 19968, 25972, 29702, 19982, 36880, 39033, 26680, 23545, 65292, 25105,
    20204, 23545, 26469, 33258, 22810, 20010, 20844, 24320, 38431, 21015, 30340, 26679, 26412, 36827,
    34892, 20102, 32479, 19968, 25972, 29702, 19982, 36880, 39033, 26680, 23545, 65292, 25105, 20204,
    23545, 26469, 33258, 22810, 20010, 20844, 24320, 38431, 21015, 30340, 26679, 26412, 36827, 34892,
    20102, 32479, 19968, 25972, 29702, 19982, 36880, 39033, 26680, 23545, 65292, 25105, 20204, 23545,
    26469, 33258, 22810, 20010, 20844, 24320, 38431, 21015, 30340, 26679, 26412, 36827, 34892, 20102,
    32479, 19968, 25972, 29702, 19982, 36880, 39033, 26680, 23545, 65292, 25105, 20204, 23545, 26469,
    33258, 22810, 20010, 20844, 24320, 38431, 21015, 30340, 26679, 26412, 36827, 34892, 20102, 32479,
    19968, 25972, 29702, 19982, 36880, 39033, 26680, 23545, 65292, 25105, 20204, 23545, 26469, 33258,
    22810, 20010, 20844, 24320, 38431, 21015, 30340, 26679, 26412, 36827, 34892, 20102, 32479, 19968,
    25972, 29702, 19982, 36880, 39033, 26680, 23545, 65292, 25105, 20204, 23545, 26469, 33258, 22810,
    20010, 20844, 24320, 38431, 21015, 30340, 26679, 26412, 36827, 34892, 20102, 32479, 19968, 25972,
    29702, 19982, 36880, 39033, 26680, 23545, 65292, 25105, 20204, 23545, 26469, 33258, 22810, 20010,
    20844, 24320, 38431, 21015, 30340, 26679, 26412, 36827, 34892, 20102, 32479, 19968, 25972, 29702,
    19982, 36880, 39033, 26680, 23545, 65292, 25105, 20204, 23545, 26469, 33258, 22810, 20010, 20844,
    24320, 38431, 21015, 30340, 26679, 26412, 36827, 34892, 20102, 32479, 19968, 25972, 29702, 19982,
    36880, 39033, 26680, 23545, 65292, 25105, 20204, 23545, 26469, 33258, 22810, 20010, 20844, 24320,
    38431, 21015, 30340, 26679, 26412, 36827, 34892, 20102, 32479, 19968, 25972, 29702, 19982, 36880,
    39033, 26680, 23545, 65292, 25105, 20204, 23545, 26469, 33258, 22810, 20010, 20844, 24320, 38431,
    21015, 30340, 26679, 26412, 36827, 34892, 20102, 32479, 19968, 25972, 29702, 19982, 36880, 39033,
    26680, 23545, 65292, 25105, 20204, 23545, 26469, 33258, 22810, 20010, 20844, 24320, 38431, 21015,
    30340, 26679, 26412, 36827, 34892, 20102, 32479, 19968, 25972, 29702, 19982, 36880, 39033, 26680,
    23545, 65292, 25105, 20204, 23545, 26469, 33258, 22810, 20010, 20844, 24320, 38431, 21015, 30340,
    26679, 26412, 36827, 34892, 20102, 32479, 19968, 25972, 29702, 19982, 36880, 39033, 26680, 23545,
    65292, 25105, 20204, 23545, 26469, 33258, 22810, 20010, 20844, 24320, 38431, 21015, 30340, 26679,
    26412, 36827, 34892, 20102, 32479, 19968, 25972, 29702, 19982, 36880, 39033, 26680, 23545, 65292,
    25105, 20204, 23545, 26469, 33258, 22810, 20010, 20844, 24320, 38431, 21015, 30340, 26679, 26412,
    36827, 34892, 20102, 32479, 19968, 25972, 29702, 19982, 36880, 39033, 26680, 23545, 65292, 25105,
    20204, 23545, 26469, 33258, 22810, 20010, 20844, 24320, 38431, 21015, 30340, 26679, 26412, 12290>>
\* P_len_421: 421 characters, '我们对来自多个公开队列的样本进行了统一整理与逐项核对，我' repeated
P_len_421 == <<25105, 20204, 23545, 26469, 33258, 22810, 20010, 20844, 24320, 38431, 21015, 30340, 26679, 26412,
    36827, 34892, 20102, 32479, 19968, 25972, 29702, 19982, 36880, 39033, 26680, 23545, 65292, 25105,
    20204, 23545, 26469, 33258, 22810, 20010, 20844, 24320, 38431, 21015, 30340, 26679, 26412, 36827,
    34892, 20102, 32479, 19968, 25972, 29702, 19982, 36880, 39033, 26680, 23545, 65292, 25105, 20204,
    23545, 26469, 33258, 22810, 20010, 20844, 24320, 38431, 21015, 30340, 26679, 26412, 36827, 34892,
    20102, 32479, 19968, 25972, 29702, 19982, 36880, 39033, 26680, 23545, 65292, 25105, 20204, 23545,
    26469, 33258, 22810, 20010, 20844, 24320, 38431, 21015, 30340, 26679, 26412, 36827, 34892, 20102,
    32479, 19968, 25972, 29702, 19982, 36880, 39033, 26680, 23545, 65292, 25105, 20204, 23545, 26469,
    33258, 22810, 20010, 20844, 24320, 38431, 21015, 30340, 26679, 26412, 36827, 34892, 20102, 32479,
    19968, 25972, 29702, 19982, 36880, 39033, 26680, 23545, 65292, 25105, 20204, 23545, 26469, 33258,
    22810, 20010, 20844, 24320, 38431, 21015, 30340, 26679, 26412, 36827, 34892, 20102, 32479, 19968,
    25972, 29702, 19982, 36880, 39033, 26680, 23545, 65292, 25105, 20204, 23545, 26469, 33258, 22810,
    20010, 20844, 24320, 38431, 21015, 30340, 26679, 26412, 36827, 34892, 20102, 32479, 19968, 25972,
    29702, 19982, 36880, 39033, 26680, 23545, 65292, 25105, 20204, 23545, 26469, 33258, 22810, 20010,
    20844, 24320, 38431, 21015, 30340, 26679, 26412, 36827, 34892, 20102, 32479, 19968, 25972, 29702,
    19982, 36880, 39033, 26680, 23545, 65292, 25105, 20204, 23545, 26469, 33258, 22810, 20010, 20844,
    24320, 38431, 21015, 30340, 26679, 26412, 36827, 34892, 20102, 32479, 19968, 25972, 29702, 19982,
    36880, 39033, 26680, 23545, 65292, 25105, 20204, 23545, 26469, 33258, 22810, 20010, 20844, 24320,
    38431, 21015, 30340, 26679, 26412, 36827, 34892, 20102, 32479, 19968, 25972, 29702, 19982, 36880,
    39033, 26680, 23545, 65292, 25105, 20204, 23545, 26469, 33258, 22810, 20010, 20844, 24320, 38431,
    21015, 30340, 26679, 26412, 36827, 34892, 20102, 32479, 19968, 25972, 29702, 19982, 36880, 39033,
    26680, 23545, 65292, 25105, 20204, 23545, 26469, 33258, 22810, 20010, 20844, 24320, 38431, 21015,
    30340, 26679, 26412, 36827, 34892, 20102, 32479, 19968, 25972, 29702, 19982, 36880, 39033, 26680,
    23545, 65292, 25105, 20204, 23545, 26469, 33258, 22810, 20010, 20844, 24320, 38431, 21015, 30340,
    26679, 26412, 36827, 34892, 20102, 32479, 19968, 25972, 29702, 19982, 36880, 39033, 26680, 23545,
    65292, 25105, 20204, 23545, 26469, 33258, 22810, 20010, 20844, 24320, 38431, 21015, 30340, 26679,
    26412, 36827, 34892, 20102, 32479, 19968, 25972, 29702, 19982, 36880, 39033, 26680, 23545, 65292,
    25105, 20204, 23545, 26469, 33258, 22810, 20010, 20844, 24320, 38431, 21015, 30340, 26679, 26412,
    36827, 34892, 20102, 32479, 19968, 25972, 29702, 19982, 36880, 39033, 26680, 23545, 65292, 25105,
    20204, 23545, 26469, 33258, 22810, 20010, 20844, 24320, 38431, 21015, 30340, 26679, 26412, 36827,
    12290>>
P_fb_outlook0 == FALLBACK_outlook[1]
P_fb_background1 == FALLBACK_background[2]

\* ----------------------------------------------------------------------
\* Python str operations on code-point sequences
\* ----------------------------------------------------------------------

\* The characters str.split() treats as whitespace.
IsSpace(c) ==
    \/ c \in 9..13
    \/ c \in 28..32
    \/ c \in {133, 160, 5760, 8232, 8233, 8239, 8287, 12288}
    \/ c \in 8192..8202

\* str.lower() on one character; the texts of the model hold ASCII letters,
\* CJK ideographs and punctuation, where only A-Z has a lower-case form.
LowerCh(c) == IF c \in 65..90 THEN c + 32 ELSE c

Lower(s) == [i \in 1..Len(s) |-> LowerCh(s[i])]

\* Python's `p in s` for two strings.
Contains(s, p) ==
    \E i \in 1..(Len(s) - Len(p) + 1) :
        \A j \in 1..Len(p) : s[i + j - 1] = p[j]

\* any(pattern in s for pattern in patterns)
AnyIn(patterns, s) == \E k \in 1..Len(patterns) : Contains(s, patterns[k])

\* str.split() without arguments: the maximal runs of non-whitespace, in
\* order.  A word starts where a non-space follows a space or the start, and
\* ends before the next space.
Split(s) ==
    LET starts == {i \in 1..Len(s) : ~IsSpace(s[i]) /\ (i = 1 \/ IsSpace(s[i - 1]))}
        StartOf(k) == CHOOSE i \in starts : Cardinality({j \in starts : j < i}) = k - 1
        EndOf(i) == CHOOSE e \in i..Len(s) :
                        /\ \A j \in i..e : ~IsSpace(s[j])
                        /\ (e = Len(s) \/ IsSpace(s[e + 1]))
    IN  [k \in 1..Cardinality(starts) |-> SubSeq(s, StartOf(k), EndOf(StartOf(k)))]

RECURSIVE Join(_, _)
\* sep.join(words)
Join(sep, words) ==
    IF words = <<>> THEN <<>>
    ELSE IF Len(words) = 1 THEN words[1]
    ELSE words[1] \o sep \o Join(sep, Tail(words))

\* The idiom " ".join(text.split()).
CollapseWhitespace(s) == Join(SPACE, Split(s))

RECURSIVE RStrip(_)
\* str.rstrip()
RStrip(s) ==
    IF s # <<>> /\ IsSpace(s[Len(s)]) THEN RStrip(SubSeq(s, 1, Len(s) - 1)) ELSE s

\* seq[:n] for n >= 0
Take(s, n) == SubSeq(s, 1, IF n < Len(s) THEN n ELSE Len(s))

\* dict.get(key, default)
Get(d, key, default) == IF key \in DOMAIN d THEN d[key] ELSE default

\* The elements of a list, as a set.
Range(s) == {s[i] : i \in 1..Len(s)}

\* ----------------------------------------------------------------------
\* The texts of the model, and the text functions tabulated over them
\* ----------------------------------------------------------------------
\* A function of one text that the loops below apply to the same text again
\* and again is tabulated over the texts the model can hand it: the table
\* entry of a text is the function's value on it, computed once.

\* Raw texts: the points documents hold, the strings handed to
\* _dedupe_keep_order, and the fallback sentences (a document may quote one).
RawTexts ==
    { P_bg, P_method, P_result, P_outlook, P_bg_method, P_method_result,
      P_plain1, P_plain2, P_plain3, P_plain4, P_plain5, P_plain1_ws,
      P_eng_topic, P_eng_plain, P_email, P_at, P_url, P_URL_upper, P_doi,
      P_reviewer, P_REFEREE, P_shengao, P_short, P_deck, P_long,
      P_fb_outlook0, P_fb_background1, P_result_long, P_outlook_ws, P_outlook_flat,
      P_result_outlook, P_all_sections, P_copyright, P_method_long, P_len_420, P_len_421,
      D_ab, D_a_b2, D_ab_pad, D_Ab, D_b, D_blank, D_empty, D_nl, D_ideo }

collapsed == [t \in RawTexts |-> CollapseWhitespace(t)]

\* Whitespace-collapsed texts; collapsing is idempotent, so they are raw
\* texts too (_dedupe_keep_order collapses what _collect_points collapsed).
Texts == { collapsed[t] : t \in RawTexts }

collapsed_again == [t \in Texts |-> CollapseWhitespace(t)]

collapse(t) == IF t \in Texts THEN collapsed_again[t] ELSE collapsed[t]

\* ----------------------------------------------------------------------
\* build_outline.py: text policy
\* ----------------------------------------------------------------------

RECURSIVE DedupeLoop_raw_keys(_, _, _, _)
\* Variant for C4: the loop remembers the items as they came instead of
\* their whitespace-collapsed keys, so a whitespace variant passes again.
DedupeLoop_raw_keys(list, i, seen, out) ==
    IF i > Len(list) THEN out
    ELSE LET key == collapse(list[i])
         IN  IF key = <<>> \/ list[i] \in seen
             THEN DedupeLoop_raw_keys(list, i + 1, seen, out)
             ELSE DedupeLoop_raw_keys(list, i + 1, seen \cup {list[i]}, Append(out, key))

RECURSIVE DedupeLoop(_, _, _, _)
\* The loop of _dedupe_keep_order from item i on, with the keys seen and the
\* output built so far.
DedupeLoop(list, i, seen, out) ==
    IF i > Len(list) THEN out
    ELSE LET key == collapse(list[i])
         IN  IF key = <<>> \/ key \in seen
             THEN DedupeLoop(list, i + 1, seen, out)
             ELSE DedupeLoop(list, i + 1, seen \cup {key}, Append(out, key))

dedupe_keep_order(list) == DedupeLoop(list, 1, {}, <<>>)

\* Variant for C25: the cut keeps max_len characters before the ellipsis.
truncate_one_over(text, max_len) ==
    IF Len(text) <= max_len THEN text
    ELSE RStrip(SubSeq(text, 1, max_len)) \o ELLIPSIS

truncate(text, max_len) ==
    IF Len(text) <= max_len THEN text
    ELSE RStrip(SubSeq(text, 1, max_len - 1)) \o ELLIPSIS

is_rebuttal_source(name) == AnyIn(REBUTTAL_PATTERNS, Lower(name))

looks_rebuttal_text(text) == AnyIn(REBUTTAL_PATTERNS, Lower(text))

contains_cjk(text) == \E i \in 1..Len(text) : text[i] >= CJK_FIRST /\ text[i] <= CJK_LAST

\* Variant for C2: _looks_noise_text without its '@' test.
looks_noise_text_without_at(text) ==
    LET lowered == Lower(text)
    IN  \/ AnyIn(NOISE_PATTERNS, lowered)
        \/ Len(text) > NOISE_MAX_LEN

looks_noise_text(text) ==
    LET lowered == Lower(text)
    IN  \/ AnyIn(NOISE_PATTERNS, lowered)
        \/ Contains(lowered, AT_SIGN)
        \/ Len(text) > NOISE_MAX_LEN

\* Variant for C23: CJK text has to hold a topic keyword too.
looks_contentful_text_keyword_only(text) ==
    IF looks_noise_text(text) THEN FALSE
    ELSE AnyIn(TOPIC_HINT_KEYWORDS, Lower(text))

\* _looks_contentful_text
looks_contentful_text(text) ==
    IF looks_noise_text(text) THEN FALSE
    ELSE IF contains_cjk(text) THEN TRUE
    ELSE AnyIn(TOPIC_HINT_KEYWORDS, Lower(text))

\* extract_materials.py
is_rebuttal_file(name) == AnyIn(REBUTTAL_FILE_PATTERNS, Lower(name))

\* ----------------------------------------------------------------------
\* build_outline.py: _collect_points
\* ----------------------------------------------------------------------

\* First component of _doc_priority (the second is always 0).
doc_priority(doc) ==
    LET filename == doc.file
        kind == Lower(doc.kind)
    IN  IF AnyIn(THESIS_MARKERS, filename) THEN 0
        ELSE IF kind = KIND_docx THEN 1
        ELSE IF kind = KIND_pdf THEN 2
        ELSE 3

\* sorted(documents, key=_doc_priority): a stable sort on a key in 0..3 is the
\* documents of key 0 in their order, then those of key 1, and so on.
SortedByPriority(documents) ==
    LET Of(p) == SelectSeq(documents, LAMBDA d : doc_priority(d) = p)
    IN  Of(0) \o Of(1) \o Of(2) \o Of(3)

\* Variant for C19: _collect_points without its minimum length.
point_survives_any_length(text) ==
    /\ ~Contains(text, PPT_INPUT_MARKER)
    /\ ~looks_rebuttal_text(text)
    /\ looks_contentful_text(text)

\* The filter of the inner loop of _collect_points: the normalized text of a
\* raw point is appended exactly when this holds.
point_survives(text) ==
    /\ ~(Len(text) < MIN_POINT_LEN)
    /\ ~Contains(text, PPT_INPUT_MARKER)
    /\ ~looks_rebuttal_text(text)
    /\ looks_contentful_text(text)

survives == [t \in Texts |-> point_survives(t)]

RECURSIVE PointsOfDocument(_, _)
\* The texts one document appends, from raw point i on.
PointsOfDocument(key_points, i) ==
    IF i > Len(key_points) THEN <<>>
    ELSE LET text == collapse(key_points[i])
         IN  (IF survives[text] THEN <<text>> ELSE <<>>)
                 \o PointsOfDocument(key_points, i + 1)

RECURSIVE PointsOfDocuments(_, _)
\* The outer loop of _collect_points over the sorted documents, from i on.
PointsOfDocuments(docs, i) ==
    IF i > Len(docs) THEN <<>>
    ELSE LET doc == docs[i]
             kind == Lower(doc.kind)
         IN  (IF is_rebuttal_source(doc.file) \/ kind = KIND_pptx
              THEN <<>>
              ELSE PointsOfDocument(doc.key_points, 1))
                 \o PointsOfDocuments(docs, i + 1)

\* Variant for C24: the cap is applied to the appended points, before the
\* duplicates are removed.
collect_points_cap_first(s, n) ==
    LET documents == Get(s, "documents", <<>>)
    IN  dedupe_keep_order(Take(PointsOfDocuments(SortedByPriority(documents), 1), n))

collect_points(s, n) ==
    LET documents == Get(s, "documents", <<>>)
    IN  Take(dedupe_keep_order(PointsOfDocuments(SortedByPriority(documents), 1)), n)

\* ----------------------------------------------------------------------
\* build_outline.py: classification and section assembly
\* ----------------------------------------------------------------------

Sections == <<"background", "methodology", "results", "outlook">>

\* The value _classify_point returns for a point matching no keyword set.
NoSection == "None"

\* Variant for C20: the keyword sets are tried from the last to the first.
classify_point_last_match(point) ==
    LET lowered == Lower(point)
    IN  IF AnyIn(OUTLOOK_KEYWORDS, lowered) THEN "outlook"
        ELSE IF AnyIn(RESULT_KEYWORDS, lowered) THEN "results"
        ELSE IF AnyIn(METHOD_KEYWORDS, lowered) THEN "methodology"
        ELSE IF AnyIn(BACKGROUND_KEYWORDS, lowered) THEN "background"
        ELSE NoSection

\* _classify_point
classify_point(point) ==
    LET lowered == Lower(point)
    IN  IF AnyIn(BACKGROUND_KEYWORDS, lowered) THEN "background"
        ELSE IF AnyIn(METHOD_KEYWORDS, lowered) THEN "methodology"
        ELSE IF AnyIn(RESULT_KEYWORDS, lowered) THEN "results"
        ELSE IF AnyIn(OUTLOOK_KEYWORDS, lowered) THEN "outlook"
        ELSE NoSection

section_of == [t \in Texts |-> classify_point(t)]

\* Variant for C5: every point is filed by the load balancing the code
\* keeps for unlabelled points.
bucket_for_balanced(point, bs) ==
    IF Len(bs.results) <= Len(bs.methodology) THEN "results" ELSE "methodology"

\* Variant for C21: the load balancing with `<` for `<=`.
bucket_for_strict(point, bs) ==
    LET section == section_of[point]
    IN  IF section # NoSection THEN section
        ELSE IF Len(bs.results) < Len(bs.methodology) THEN "results"
        ELSE "methodology"

\* The section the classification loop of _section_payloads appends a point
\* to, given the buckets at that moment.
bucket_for(point, bs) ==
    LET section == section_of[point]
    IN  IF section # NoSection THEN section
        ELSE IF Len(bs.results) <= Len(bs.methodology) THEN "results"
        ELSE "methodology"

RECURSIVE ClassifyLoop(_, _, _)
ClassifyLoop(pts, i, bs) ==
    IF i > Len(pts) THEN bs
    ELSE LET section == bucket_for(pts[i], bs)
         IN  ClassifyLoop(pts, i + 1, [bs EXCEPT ![section] = Append(@, pts[i])])

EmptyBuckets == [background |-> <<>>, methodology |-> <<>>, results |-> <<>>, outlook |-> <<>>]

classified_buckets(pts) == ClassifyLoop(pts, 1, EmptyBuckets)

point_quality(point) ==
    LET lowered == Lower(point)
    IN    (IF contains_cjk(point) THEN 3 ELSE 0)
        + (IF QUALITY_MIN_LEN <= Len(point) /\ Len(point) <= QUALITY_MAX_LEN THEN 1 ELSE 0)
        + (IF AnyIn(TOPIC_HINT_KEYWORDS, lowered) THEN 1 ELSE 0)
        - (IF AnyIn(COPYRIGHT_MARKERS, lowered) THEN 2 ELSE 0)

quality_of == [t \in Texts |-> point_quality(t)]

RECURSIVE InsertByQuality_before_equals(_, _)
\* Variant for C22: x in front of the entries of its own quality.
InsertByQuality_before_equals(sorted, x) ==
    IF sorted = <<>> THEN <<x>>
    ELSE IF quality_of[Head(sorted)] > quality_of[x]
         THEN <<Head(sorted)>> \o InsertByQuality_before_equals(Tail(sorted), x)
         ELSE <<x>> \o sorted

RECURSIVE InsertByQuality(_, _)
\* x behind every entry whose quality is not smaller: equal scores keep
\* their order of arrival, as Python's stable sort with reverse=True does.
InsertByQuality(sorted, x) ==
    IF sorted = <<>> THEN <<x>>
    ELSE IF quality_of[Head(sorted)] >= quality_of[x]
         THEN <<Head(sorted)>> \o InsertByQuality(Tail(sorted), x)
         ELSE <<x>> \o sorted

RECURSIVE SortedByQuality(_)
\* sorted(bucket, key=_point_quality, reverse=True)
SortedByQuality(bucket) ==
    IF bucket = <<>> THEN <<>>
    ELSE InsertByQuality(SortedByQuality(SubSeq(bucket, 1, Len(bucket) - 1)), bucket[Len(bucket)])

payload_size(m) == IF m = "presentation" THEN SIZE_PRESENTATION ELSE SIZE_DENSE

RECURSIVE FillFromFallback_one_more(_, _, _, _)
\* Variant for C9: the while loop with `<=` for `<`, one entry too many.
FillFromFallback_one_more(chosen, fallback, fallback_idx, size) ==
    IF Len(chosen) <= size /\ fallback_idx < Len(fallback)
    THEN FillFromFallback_one_more(Append(chosen, fallback[fallback_idx + 1]), fallback,
                                   fallback_idx + 1, size)
    ELSE chosen

RECURSIVE FillFromFallback(_, _, _, _)
\* The while loop of _section_payloads.
FillFromFallback(chosen, fallback, fallback_idx, size) ==
    IF Len(chosen) < size /\ fallback_idx < Len(fallback)
    THEN FillFromFallback(Append(chosen, fallback[fallback_idx + 1]), fallback, fallback_idx + 1, size)
    ELSE chosen

section_payload(bucket, fallback, size) ==
    FillFromFallback(Take(SortedByQuality(bucket), size), fallback, 0, size)

\* _section_payloads after its classification loop: sort, cut, fill.
payloads_of(bs, m) ==
    LET size == payload_size(m)
    IN  [section \in DOMAIN SECTION_FALLBACKS |->
            section_payload(bs[section], SECTION_FALLBACKS[section], size)]

section_payloads(pts, m) == payloads_of(classified_buckets(pts), m)

\* ----------------------------------------------------------------------
\* Bounds and input sets
\* ----------------------------------------------------------------------
MaxItems == 3
MaxDocs == 2
MaxPoints == 5
MaxPassPoints == 3

\* The value of a variable no call has written yet.
None == "None"

Modes == {"presentation", "self_explanatory"}

RECURSIVE ListsUpTo(_, _)
\* The lists of at most n elements of S.
ListsUpTo(S, n) ==
    IF n = 0 THEN {<<>>}
    ELSE LET shorter == ListsUpTo(S, n - 1)
         IN  shorter \cup {Append(l, x) : l \in shorter, x \in S}

RECURSIVE DistinctListsUpTo(_, _)
\* The lists of at most n elements of S without a repeated element.
DistinctListsUpTo(S, n) ==
    IF n = 0 THEN {<<>>}
    ELSE LET shorter == DistinctListsUpTo(S, n - 1)
         IN  shorter \cup UNION { {Append(l, x) : x \in S \ Range(l)} : l \in shorter }

\* Raw strings for _dedupe_keep_order: whitespace variants of one text, a
\* case variant, another text, and strings that collapse to the empty string.
DedupeTexts == {D_ab, D_a_b2, D_ab_pad, D_Ab, D_b, D_blank, D_empty, D_nl, D_ideo}

ItemLists == ListsUpTo(DedupeTexts, MaxItems)

\* Raw key_points lists of documents.
KP_thesis == <<P_bg, P_method, P_result, P_outlook, P_email>>
KP_review == <<P_reviewer, P_plain1, P_shengao>>
KP_mixed == <<P_plain1_ws, P_eng_topic, P_eng_plain, P_url, P_short, P_plain1>>
KP_deck == <<P_deck>>

NamedFiles ==
    { <<F_thesis, KIND_docx>>, <<F_referees, KIND_docx>>, <<F_REBUTTAL, KIND_pdf>>,
      <<F_shengao, KIND_docx>>, <<F_point_by_point, KIND_docx>>, <<F_paper, KIND_PDF>> }

Document(file, kind, key_points) == [file |-> file, kind |-> kind, key_points |-> key_points]

DocCatalogue ==
    { Document(f[1], f[2], kp) : f \in NamedFiles, kp \in {KP_thesis, KP_review, KP_mixed} }
        \cup { Document(F_deck, KIND_pptx, KP_deck), Document(F_deck, KIND_pptx, KP_thesis) }

CollectSummaries == { [documents |-> docs] : docs \in ListsUpTo(DocCatalogue, MaxDocs) }

\* Raw points on either side of every test of the inner loop of
\* _collect_points, in a paper, in a thesis and in a deck.
MaxSurvivalPoints == 2

SurvivalTexts ==
    { P_bg, P_short, P_deck, P_eng_plain, P_eng_topic, P_email, P_at, P_reviewer, P_shengao,
      P_plain1_ws, P_len_420, P_len_421, P_url }

SurvivalSummaries ==
    { [documents |-> <<Document(f[1], f[2], key_points)>>] :
          f \in {<<F_thesis, KIND_docx>>, <<F_paper, KIND_pdf>>, <<F_deck, KIND_pptx>>},
          key_points \in ListsUpTo(SurvivalTexts, MaxSurvivalPoints) }

\* Documents of every class of _doc_priority and a deck, whose key_points
\* repeat points within a document and across documents, in summaries of
\* any order, collected under limits below and above the number of points.
MaxCapDocs == 2
MaxCollectLimit == 2

CapKeyPoints ==
    { <<P_bg, P_method>>, <<P_plain1, P_plain1_ws, P_method>>, <<P_result, P_short, P_plain1>> }

CapFiles ==
    { <<F_thesis, KIND_pdf>>, <<F_notes, KIND_docx>>, <<F_paper, KIND_PDF>>,
      <<F_readme, KIND_md>>, <<F_deck, KIND_pptx>> }

CapDocs == { Document(f[1], f[2], key_points) : f \in CapFiles, key_points \in CapKeyPoints }

CapSummaries == { [documents |-> docs] : docs \in ListsUpTo(CapDocs, MaxCapDocs) }

CollectLimits == (1..MaxCollectLimit) \cup {COLLECT_LIMIT}

\* Content of _make_slide: items of 78 and 79 characters, of 190 and 191, an
\* item whose 77th character is a space, a short one and the empty string, in
\* lists longer than the four items the script takes.
MaxSlideItems == 5

SlideTexts == { P_bg, T_78, T_79, T_cut_at_space, T_190, P_method_long, <<>> }

SlideContents == DistinctListsUpTo(SlideTexts, MaxSlideItems)

SlidePageTypes == { "results", "qa" }

\* Point lists as _collect_points returns them: normalized surviving texts,
\* none repeated.
PayloadTexts ==
    { P_method, P_method_result, P_eng_topic, P_fb_background1, P_plain1,
      P_fb_outlook0, P_bg }

PointLists == DistinctListsUpTo(PayloadTexts, MaxPoints)

PassTexts == { P_plain1, P_plain2, P_method, P_result, P_bg }

PassLists == DistinctListsUpTo(PassTexts, MaxPassPoints)

\* Points of one section with quality scores from 0 to 4, some of them
\* equal, and a point without a keyword.
MaxRankingPoints == 5

RankingTexts ==
    { P_method, P_method_result, P_eng_topic, P_fb_background1, P_copyright, P_method_long,
      P_plain1 }

RankingLists == DistinctListsUpTo(RankingTexts, MaxRankingPoints)

\* Points that match no keyword set, and points that match one.
MaxBalancingPoints == 4

BalancingTexts == { P_plain1, P_plain2, P_plain3, P_plain4, P_method, P_result, P_bg }

BalancingLists == DistinctListsUpTo(BalancingTexts, MaxBalancingPoints)

\* Points that match the keywords of several sections, of one and of none.
MaxFilingPoints == 3

FilingTexts ==
    { P_bg_method, P_method_result, P_shengao, P_result_outlook, P_all_sections, P_outlook, P_plain1 }

FilingLists == DistinctListsUpTo(FilingTexts, MaxFilingPoints)

\* ----------------------------------------------------------------------
\* Python values of the strategy object
\* ----------------------------------------------------------------------
\* A value of a strategy field is tagged with its Python type.  A finite float
\* is given by its integer part and by whether it has a fractional part.
PyNone == [t |-> "NoneType"]
PyBool(b) == [t |-> "bool", b |-> b]
PyInt(n) == [t |-> "int", n |-> n]
PyStr(s) == [t |-> "str", s |-> s]
PyFloat(trunc, frac) == [t |-> "float", f |-> "finite", trunc |-> trunc, frac |-> frac]
FloatInf == [t |-> "float", f |-> "inf"]
FloatNaN == [t |-> "float", f |-> "nan"]
PyDict(d) == [t |-> "dict", d |-> d]
PyList(l) == [t |-> "list", l |-> l]

\* bool(v)
truthy(v) ==
    CASE v.t = "NoneType" -> FALSE
      [] v.t = "bool" -> v.b
      [] v.t = "int" -> v.n # 0
      [] v.t = "float" -> IF v.f = "finite" THEN v.trunc # 0 \/ v.frac ELSE TRUE
      [] v.t = "str" -> v.s # <<>>
      [] v.t = "dict" -> DOMAIN v.d # {}
      [] v.t = "list" -> v.l # <<>>

RECURSIVE LStrip(_)
LStrip(s) == IF s # <<>> /\ IsSpace(s[1]) THEN LStrip(Tail(s)) ELSE s

RECURSIVE DigitsValue(_)
\* The value of a string of ASCII digits.
DigitsValue(s) ==
    IF s = <<>> THEN 0 ELSE 10 * DigitsValue(SubSeq(s, 1, Len(s) - 1)) + (s[Len(s)] - 48)

\* int(s) for a str: surrounding whitespace, an optional sign, decimal digits.
int_of_str(s) ==
    LET body == RStrip(LStrip(s))
        signed == body # <<>> /\ body[1] \in {43, 45}
        digits == IF signed THEN Tail(body) ELSE body
    IN  IF digits # <<>> /\ \A i \in 1..Len(digits) : digits[i] \in 48..57
        THEN [exc |-> "none",
              n |-> IF signed /\ body[1] = 45 THEN 0 - DigitsValue(digits) ELSE DigitsValue(digits)]
        ELSE [exc |-> "ValueError"]

\* int(v): the integer, or the exception the conversion raises.
int_of(v) ==
    CASE v.t = "int" -> [exc |-> "none", n |-> v.n]
      [] v.t = "bool" -> [exc |-> "none", n |-> IF v.b THEN 1 ELSE 0]
      [] v.t = "float" ->
            IF v.f = "finite" THEN [exc |-> "none", n |-> v.trunc]
            ELSE IF v.f = "nan" THEN [exc |-> "ValueError"]
            ELSE [exc |-> "OverflowError"]
      [] v.t = "str" -> int_of_str(v.s)
      [] OTHER -> [exc |-> "TypeError"]

RECURSIVE NatToStr(_)
NatToStr(n) == IF n < 10 THEN <<48 + n>> ELSE NatToStr(n \div 10) \o <<48 + (n % 10)>>

TEXT_True == <<84, 114, 117, 101>>
TEXT_False == <<70, 97, 108, 115, 101>>

\* str(v) and the {v} of an f-string, for the types a text field holds here.
str_of(v) ==
    CASE v.t = "str" -> v.s
      [] v.t = "int" -> IF v.n < 0 THEN <<45>> \o NatToStr(0 - v.n) ELSE NatToStr(v.n)
      [] v.t = "bool" -> IF v.b THEN TEXT_True ELSE TEXT_False

Max(a, b) == IF a >= b THEN a ELSE b

\* ----------------------------------------------------------------------
\* build_outline.py: _normalize_strategy
\* ----------------------------------------------------------------------

DEFAULT_STYLES == [clinical |-> PyStr(STYLE_rigorous), ai_principle |-> PyStr(STYLE_popular)]

DEFAULT_STRATEGY ==
    [speaker_role |-> PyStr(DEFAULT_speaker_role),
     audience_profile |-> PyStr(DEFAULT_audience_profile),
     core_goal |-> PyStr(DEFAULT_core_goal),
     style_by_section |-> PyDict(DEFAULT_STYLES),
     target_slide_count |-> PyInt(DEFAULT_SLIDE_COUNT),
     max_minutes_per_slide |-> PyInt(DEFAULT_MINUTES),
     content_depth |-> PyStr(DEFAULT_content_depth),
     require_chapter_dividers |-> PyBool(TRUE),
     citation_policy |-> PyStr(DEFAULT_citation_policy)]

DEFAULT_THEME ==
    [font_name |-> "Noto Sans SC", title_color |-> "1E3A8A", body_color |-> "0F172A",
     accent_color |-> "0EA5E9", background_color |-> "F8FAFC"]

\* Variant for C12: an update in which the value already there wins.
Updated_base_wins(base, extra) ==
    [k \in DOMAIN base \cup DOMAIN extra |-> IF k \in DOMAIN base THEN base[k] ELSE extra[k]]

\* dict.update: the keys of both, the values of `extra` where it has the key.
Updated(base, extra) ==
    [k \in DOMAIN base \cup DOMAIN extra |-> IF k \in DOMAIN extra THEN extra[k] ELSE base[k]]

\* The try/except around max(floor, int(value)): the number, or the default
\* on TypeError and ValueError; any other exception leaves the function.
clamped_int(value, floor, default) ==
    LET r == int_of(value)
    IN  IF r.exc = "none" THEN [exc |-> "none", n |-> Max(floor, r.n)]
        ELSE IF r.exc \in {"TypeError", "ValueError"} THEN [exc |-> "none", n |-> default]
        ELSE [exc |-> r.exc]

\* merged after lines 210-212: a copy of the module-level defaults, updated
\* with the caller's fields that are not None.
merged_strategy(defaults, raw) ==
    LET given == IF truthy(raw)
                 THEN [k \in {k \in DOMAIN raw.d : raw.d[k] # PyNone} |-> raw.d[k]]
                 ELSE <<>>
    IN  Updated(defaults, given)

\* base_styles after lines 214-216: the default styles updated with the
\* caller's, where those are a dict.
merged_styles(defaults, raw) ==
    LET merged == merged_strategy(defaults, raw)
        extra_styles == IF merged.style_by_section.t = "dict" THEN merged.style_by_section.d ELSE <<>>
    IN  Updated(defaults.style_by_section.d, extra_styles)

\* Variant for C15: base_styles is the module-level dict itself, not a copy,
\* so the caller's styles stay in it.
defaults_sharing_styles(defaults, base_styles) ==
    [defaults EXCEPT !.style_by_section = PyDict(base_styles)]

\* The module-level DEFAULT_STRATEGY after base_styles was updated: merged and
\* base_styles are copies (dict(...), lines 210 and 214), so the updates at
\* 212 and 216 and the assignments at 217-230 do not reach it.
defaults_after_update(defaults, base_styles) == defaults

\* The module-level DEFAULT_STRATEGY after _normalize_strategy(raw) ran.
defaults_after(defaults, raw) == defaults_after_update(defaults, merged_styles(defaults, raw))

\* _normalize_strategy(raw) with the module-level defaults it finds:
\* [exc |-> "none", value |-> the normalized strategy], or [exc |-> the
\* exception that leaves the function].
normalize_strategy_from(defaults, raw) ==
    LET merged == merged_strategy(defaults, raw)
        base_styles == merged_styles(defaults, raw)
        slide_count == clamped_int(merged.target_slide_count, MIN_SLIDE_COUNT, DEFAULT_SLIDE_COUNT)
        minutes == clamped_int(merged.max_minutes_per_slide, MIN_MINUTES, DEFAULT_MINUTES)
    IN  IF slide_count.exc # "none" THEN [exc |-> slide_count.exc]
        ELSE IF minutes.exc # "none" THEN [exc |-> minutes.exc]
        ELSE [exc |-> "none",
              value |-> [merged EXCEPT
                            !.style_by_section = PyDict(base_styles),
                            !.target_slide_count = PyInt(slide_count.n),
                            !.max_minutes_per_slide = PyInt(minutes.n),
                            !.require_chapter_dividers = PyBool(truthy(@)),
                            !.citation_policy = PyStr(str_of(@))]]

\* _normalize_strategy(raw) in a process whose defaults are as imported.
normalize_strategy(raw) == normalize_strategy_from(DEFAULT_STRATEGY, raw)

\* ----------------------------------------------------------------------
\* build_outline.py: _agenda_items, _make_slide
\* ----------------------------------------------------------------------

agenda_items(m) == IF m = "presentation" THEN AGENDA_PRESENTATION ELSE AGENDA_DENSE

\* A parameter of _make_slide left at its default None.
NoKind == ""

\* Variant for C6: the self_explanatory branch keeps the script as notes.
mode_fields_notes_everywhere(m, content) ==
    LET joined == Join(SCRIPT_SEPARATOR, Take(content, SCRIPT_ITEMS))
        script == IF joined = <<>> THEN GENERIC_SCRIPT ELSE joined
    IN  IF m = "presentation"
        THEN [speaker_script |-> script, speaker_notes |-> script]
        ELSE [design_rationale |-> DESIGN_RATIONALE, speaker_notes |-> script]

\* Variant for C26: the script is joined from the items as the slide shows
\* them, cut to the presentation limit.
mode_fields_from_shown(m, content) ==
    LET shown == [i \in 1..Len(content) |-> truncate(content[i], LIMIT_PRESENTATION)]
        joined == Join(SCRIPT_SEPARATOR, Take(shown, SCRIPT_ITEMS))
        script == IF joined = <<>> THEN GENERIC_SCRIPT ELSE joined
    IN  IF m = "presentation"
        THEN [speaker_script |-> script, speaker_notes |-> script]
        ELSE [design_rationale |-> DESIGN_RATIONALE, speaker_notes |-> <<>>]

\* The keys _make_slide adds to a content slide for the mode.
mode_fields(m, content) ==
    LET joined == Join(SCRIPT_SEPARATOR, Take(content, SCRIPT_ITEMS))
        script == IF joined = <<>> THEN GENERIC_SCRIPT ELSE joined
    IN  IF m = "presentation"
        THEN [speaker_script |-> script, speaker_notes |-> script]
        ELSE [design_rationale |-> DESIGN_RATIONALE, speaker_notes |-> <<>>]

\* _make_slide; a slide is the dict the function returns, its keys the
\* domain.  content is <<>> and visual_kind is NoKind where the caller passes
\* none; image_path is PyNone or a Str.
make_slide(m, page_type, title, content, visual_kind, section_style, image_path, source_hint) ==
    LET dense == m = "self_explanatory"
        max_len == IF dense THEN LIMIT_DENSE ELSE LIMIT_PRESENTATION
        on_slide_content == [i \in 1..Len(content) |-> truncate(content[i], max_len)]
        slide == [slide_number |-> 0, page_type |-> page_type, title |-> title,
                  section_style |-> section_style]
    IN  IF page_type = "cover"
        THEN IF on_slide_content # <<>>
             THEN slide @@ [type |-> "title", subtitle |-> on_slide_content[1]]
             ELSE slide @@ [type |-> "title"]
        ELSE IF page_type = "section_divider"
        THEN slide @@ [type |-> "section"]
        ELSE slide @@
             [type |-> "content",
              on_slide_content |-> on_slide_content,
              visual_spec |->
                  [kind |-> IF visual_kind = NoKind THEN "icon_list" ELSE visual_kind,
                   layout |-> "left_text_right_visual",
                   image_policy |-> "material_only",
                   image_path |-> IF truthy(image_path) THEN image_path.s ELSE <<>>,
                   source |-> source_hint],
              bullets |-> on_slide_content] @@ mode_fields(m, content)

\* ----------------------------------------------------------------------
\* build_outline.py: build_outline
\* ----------------------------------------------------------------------

\* [img.get("path") for img in summary.get("images", []) if img.get("path")]
image_paths(s) ==
    LET imgs == Get(s, "images", <<>>)
        with_path == SelectSeq(imgs, LAMBDA img : Get(img, "path", <<>>) # <<>>)
    IN  [i \in 1..Len(with_path) |-> with_path[i].path]

\* image_for(index)
image_for(images, index) ==
    IF images = <<>> THEN PyNone ELSE PyStr(images[(index % Len(images)) + 1])

\* summary.get("project_title") or the default title
outline_title(s) ==
    IF Get(s, "project_title", <<>>) # <<>> THEN s.project_title ELSE DEFAULT_TITLE

\* The f-string of the subtitle.
outline_subtitle(strategy_obj) ==
    SUBTITLE_PART1 \o str_of(strategy_obj.audience_profile)
        \o SUBTITLE_PART2 \o str_of(strategy_obj.speaker_role)
        \o SUBTITLE_PART3 \o str_of(strategy_obj.core_goal)

\* Variant for C7: a chapter divider whatever the strategy asks for.
chapter_divider_always(m, strategy_obj, title, style) ==
    <<make_slide(m, "section_divider", title, <<>>, NoKind, style, PyNone, <<>>)>>

\* Variant for C14: chapter dividers in presentation mode only.
chapter_divider_when_presenting(m, strategy_obj, title, style) ==
    IF m = "presentation" /\ truthy(Get(strategy_obj, "require_chapter_dividers", PyBool(TRUE)))
    THEN <<make_slide(m, "section_divider", title, <<>>, NoKind, style, PyNone, <<>>)>>
    ELSE <<>>

\* if strategy_obj.get("require_chapter_dividers", True): slides.append(...)
chapter_divider(m, strategy_obj, title, style) ==
    IF truthy(Get(strategy_obj, "require_chapter_dividers", PyBool(TRUE)))
    THEN <<make_slide(m, "section_divider", title, <<>>, NoKind, style, PyNone, <<>>)>>
    ELSE <<>>

\* The slides of build_outline in the order they are appended, before they
\* are numbered.
appended_slides(s, m, strategy_obj) ==
    LET title == outline_title(s)
        subtitle == outline_subtitle(strategy_obj)
        sections == section_payloads(collect_points(s, COLLECT_LIMIT), m)
        images == image_paths(s)
        styles == strategy_obj.style_by_section.d
        clinical == Get(styles, "clinical", PyStr(STYLE_rigorous))
        ai_principle == Get(styles, "ai_principle", PyStr(STYLE_popular))
        Divider(t, style) == chapter_divider(m, strategy_obj, t, style)
    IN  <<make_slide(m, "cover", title, <<subtitle>>, NoKind, PyStr(STYLE_rigorous), PyNone, <<>>)>>
        \o <<make_slide(m, "agenda", TITLE_agenda, agenda_items(m), "three_column_compare",
                        PyStr(STYLE_balanced), PyNone, SOURCE_agenda)>>
        \o Divider(TITLE_divider1, clinical)
        \o <<make_slide(m, "background", TITLE_background, sections.background, "icon_list",
                        clinical, image_for(images, 0), SOURCE_background)>>
        \o Divider(TITLE_divider2, ai_principle)
        \o <<make_slide(m, "methodology", TITLE_methodology, sections.methodology, "two_step_flow",
                        ai_principle, image_for(images, 1), SOURCE_methodology)>>
        \o Divider(TITLE_divider3, PyStr(STYLE_rigorous))
        \o <<make_slide(m, "results", TITLE_results, sections.results, "bar_compare",
                        PyStr(STYLE_rigorous), image_for(images, 2), SOURCE_results)>>
        \o Divider(TITLE_divider4, PyStr(STYLE_balanced))
        \o <<make_slide(m, "outlook", TITLE_outlook, sections.outlook, "timeline",
                        PyStr(STYLE_balanced), PyNone, SOURCE_outlook)>>
        \o <<make_slide(m, "conclusion", TITLE_conclusion, CONCLUSION_CONTENT, "three_column_compare",
                        PyStr(STYLE_rigorous), PyNone, SOURCE_conclusion)>>
        \o <<make_slide(m, "qa", TITLE_qa, QA_CONTENT, "icon_list",
                        PyStr(STYLE_balanced), PyNone, SOURCE_qa)>>

\* Variant for C13: enumerate without start=1.
numbered_from_zero(slides) == [i \in 1..Len(slides) |-> [slides[i] EXCEPT !.slide_number = i - 1]]

\* for idx, slide in enumerate(slides, start=1): slide["slide_number"] = idx
numbered(slides) == [i \in 1..Len(slides) |-> [slides[i] EXCEPT !.slide_number = i]]

\* build_outline(summary, mode, strategy): [exc |-> "none", value |-> the
\* outline], or [exc |-> the exception raised].
build_outline_from(defaults, s, m, raw_strategy) ==
    IF m \notin {"presentation", "self_explanatory"} THEN [exc |-> "ValueError"]
    ELSE LET normalized == normalize_strategy_from(defaults, raw_strategy)
         IN  IF normalized.exc # "none" THEN [exc |-> normalized.exc]
             ELSE LET strategy_obj == normalized.value
                      slides == appended_slides(s, m, strategy_obj)
                  IN  [exc |-> "none",
                       value |->
                          [title |-> outline_title(s),
                           subtitle |-> outline_subtitle(strategy_obj),
                           mode |-> m,
                           theme |-> DEFAULT_THEME,
                           strategy |-> strategy_obj,
                           slides |-> numbered(slides)]]

\* build_outline in a process whose defaults are as imported.
build_outline(s, m, raw_strategy) == build_outline_from(DEFAULT_STRATEGY, s, m, raw_strategy)

\* ----------------------------------------------------------------------
\* qa_deck.py: _content_indices_from_outline
\* ----------------------------------------------------------------------

CONTENT_EXCLUDED_PAGE_TYPES == {"cover", "section_divider"}

\* str(name).strip().lower() on the names a slide carries as page_type or
\* type, and on a few spellings that the call changes; "" is the default of
\* a missing key.
stripped_lower ==
    [name \in {"", "cover", "agenda", "section_divider", "background", "methodology",
               "results", "outlook", "conclusion", "qa", "title", "section", "content"}
        |-> name]
    @@ ("Cover" :> "cover") @@ (" cover " :> "cover") @@ ("Section_Divider" :> "section_divider")
    @@ ("Content" :> "content") @@ (" " :> "")

\* Variant for C17: only the cover is kept out of the content slides.
content_indices_keeping_dividers(o) ==
    LET slides == Get(o, "slides", <<>>)
        Listed(idx) ==
            LET page_type == stripped_lower[Get(slides[idx + 1], "page_type", "")]
                slide_type == stripped_lower[Get(slides[idx + 1], "type", "")]
            IN  \/ page_type # "" /\ page_type # "cover"
                \/ page_type = "" /\ slide_type = "content"
    IN  SelectSeq([i \in 1..Len(slides) |-> i - 1], Listed)

\* _content_indices_from_outline: the indices, from 0, of the slides the QA
\* takes for content slides, in the order of the outline.
content_indices_from_outline(o) ==
    LET slides == Get(o, "slides", <<>>)
        Listed(idx) ==
            LET page_type == stripped_lower[Get(slides[idx + 1], "page_type", "")]
                slide_type == stripped_lower[Get(slides[idx + 1], "type", "")]
            IN  \/ page_type # "" /\ page_type \notin CONTENT_EXCLUDED_PAGE_TYPES
                \/ page_type = "" /\ slide_type = "content"
    IN  SelectSeq([i \in 1..Len(slides) |-> i - 1], Listed)

\* ----------------------------------------------------------------------
\* render_editable_ppt.py
\* ----------------------------------------------------------------------
\* A presentation is [layouts, slides]; a layout is the sequence of the
\* placeholders a slide made from it starts with; a slide is [shapes, notes].
\* A shape carries what validate_deck reads of it: its name, has_text_frame
\* and is_placeholder.  A name is the sequence of its parts between hyphens,
\* "viz-title-band" being <<"viz", "title", "band">>, so that
\* startswith("viz-") is computed on it.  Fills, fonts, positions and the
\* text of the runs are left out.

Shape(name, has_text_frame, is_placeholder) ==
    [name |-> name, has_text_frame |-> has_text_frame, is_placeholder |-> is_placeholder]

\* shapes.add_textbox(...) and shapes.add_shape(...) followed by the
\* assignment of the name: a text box or an auto shape, both with a text
\* frame, neither a placeholder.
add_textbox(shapes, name) == Append(shapes, Shape(name, TRUE, FALSE))
add_shape(shapes, name) == Append(shapes, Shape(name, TRUE, FALSE))

\* shapes.add_picture(...): a picture has no text frame.
add_picture(shapes, name) == Append(shapes, Shape(name, FALSE, FALSE))

\* The name add_textbox gives a box that the code does not name.
UNNAMED_TEXTBOX == <<"TextBox 3">>

\* The suffix of f"...-{i}".
Digits == <<"1", "2", "3", "4">>

\* _find_layout(pres, preferred_index, fallback_index)
find_layout(layouts, preferred_index, fallback_index) ==
    IF preferred_index < Len(layouts) THEN layouts[preferred_index + 1]
    ELSE IF fallback_index < Len(layouts) THEN layouts[fallback_index + 1]
    ELSE layouts[1]

\* Variant for C18: the placeholders of the layout stay on the slide.
remove_placeholders_skipped(shapes) == shapes

\* _remove_placeholders(slide)
remove_placeholders(shapes) == SelectSeq(shapes, LAMBDA shape : ~shape.is_placeholder)

\* _add_blank_slide(pres): the shapes of the new slide
add_blank_slide(pres) == remove_placeholders(find_layout(pres.layouts, 6, 0))

\* _clear_all_existing_slides(pres)
clear_all_existing_slides(pres) == [pres EXCEPT !.slides = <<>>]

\* _add_title_slide: the slide it appends
add_title_slide(pres, spec) ==
    LET band == add_shape(add_blank_slide(pres), <<"viz", "title", "band">>)
        dots == add_shape(add_shape(add_shape(band,
                    <<"viz", "title", "dot", Digits[1]>>),
                    <<"viz", "title", "dot", Digits[2]>>),
                    <<"viz", "title", "dot", Digits[3]>>)
        title_shape == add_textbox(dots, <<"title", "main">>)
        sub_shape == add_textbox(title_shape, <<"title", "sub">>)
    IN  [shapes |-> sub_shape, notes |-> None]

\* for i, bullet in enumerate(bullets[:4], start=1): label and bar
RECURSIVE add_labels_and_bars(_, _, _)
add_labels_and_bars(shapes, i, last) ==
    IF i > last THEN shapes
    ELSE add_labels_and_bars(
             add_shape(add_textbox(shapes, <<"viz", "label", Digits[i]>>),
                       <<"viz", "bar", Digits[i]>>),
             i + 1, last)

\* The image files on the disk of the renderer: the first image of the
\* summaries is there, the second is not.
FILES_ON_DISK == {IMG_1}

\* Path(image_path).exists()
path_exists(image_path) == image_path \in FILES_ON_DISK

\* _add_content_slide: the slide it appends.  has_image holds when the spec
\* has an "image" string that names a file; the key read is "image", at the
\* top of the slide dict.
add_content_slide(pres, spec) ==
    LET title_box == add_textbox(add_blank_slide(pres), <<"content", "title">>)
        has_image == "image" \in DOMAIN spec /\ path_exists(spec.image)
        body_box == add_textbox(title_box, <<"content", "body">>)
        bullets == IF Get(spec, "bullets", <<>>) # <<>> THEN spec.bullets
                   ELSE Get(spec, "on_slide_content", <<>>)
        accent == add_shape(body_box, <<"viz", "accent", "line">>)
        panel == add_shape(accent, <<"viz", "panel">>)
        visual ==
            IF has_image
            THEN add_shape(add_picture(panel, <<"viz", "image", "main">>),
                           <<"viz", "image", "caption", "box">>)
            ELSE add_textbox(
                     add_shape(add_labels_and_bars(panel, 1, Len(Take(bullets, 4))),
                               <<"viz", "summary", "ring">>),
                     <<"viz", "summary", "text">>)
        speaker_notes == IF Get(spec, "speaker_notes", <<>>) # <<>> THEN spec.speaker_notes
                         ELSE Get(spec, "speaker_script", <<>>)
    IN  [shapes |-> visual, notes |-> IF speaker_notes # <<>> THEN speaker_notes ELSE None]

\* _add_section_slide: the slide it appends
add_section_slide(pres, spec) ==
    LET strip == add_shape(add_blank_slide(pres), <<"viz", "section", "strip">>)
        ring == add_shape(strip, <<"viz", "section", "ring">>)
        box == add_textbox(ring, UNNAMED_TEXTBOX)
    IN  [shapes |-> box, notes |-> None]

\* The slide_type of the loop of render_ppt_from_outline.
slide_type_of(slide_spec) ==
    IF Get(slide_spec, "type", "") # "" THEN slide_spec.type
    ELSE LET page_type == stripped_lower[Get(slide_spec, "page_type", "")]
         IN  IF page_type = "cover" THEN "title"
             ELSE IF page_type = "section_divider" THEN "section"
             ELSE "content"

\* Presentation(): the default template of the library, eleven layouts of
\* which the seventh is blank, and no slide.
TITLE_LAYOUT == <<Shape(<<"Title 1">>, TRUE, TRUE), Shape(<<"Subtitle 2">>, TRUE, TRUE)>>
BLANK_LAYOUT == <<>>
DefaultPresentation ==
    [layouts |-> [i \in 1..11 |-> IF i = 7 THEN BLANK_LAYOUT ELSE TITLE_LAYOUT],
     slides |-> <<>>]

\* The slides of the loop of render_ppt_from_outline after its first n
\* outline slides.
RECURSIVE rendered_slides(_, _, _)
rendered_slides(pres, slides, n) ==
    IF n = 0 THEN pres.slides
    ELSE LET slide_spec == slides[n]
             slide_type == slide_type_of(slide_spec)
             idx == n - 1
         IN  Append(rendered_slides(pres, slides, n - 1),
                    IF idx = 0 /\ slide_type = "title" THEN add_title_slide(pres, slide_spec)
                    ELSE IF slide_type = "section" THEN add_section_slide(pres, slide_spec)
                    ELSE add_content_slide(pres, slide_spec))

\* render_ppt_from_outline(outline, output_path, template_path): the slides
\* of the presentation it saves.  template is PyNone, or [exists, pres] for a
\* template path and the presentation in the file.
render_ppt_from_outline(o, template) ==
    LET pres == IF template # PyNone /\ template.exists
                THEN clear_all_existing_slides(template.pres)
                ELSE DefaultPresentation
        slides == Get(o, "slides", <<>>)
    IN  rendered_slides(pres, slides, Len(slides))

\* ----------------------------------------------------------------------
\* qa_deck.py: validate_deck
\* ----------------------------------------------------------------------

\* name.startswith("viz-")
starts_with_viz(name) == Len(name) >= 2 /\ name[1] = "viz"

\* validate_deck(ppt_path, outline), on the slides of the presentation in
\* the file
validate_deck(slides, o) ==
    LET placeholder_count ==
            Cardinality(UNION { {<<i, j>> : j \in {k \in 1..Len(slides[i].shapes) :
                                                       slides[i].shapes[k].is_placeholder}} :
                                i \in 1..Len(slides) })
        content_indices == content_indices_from_outline(o)
        HasViz(idx) == \E j \in 1..Len(slides[idx + 1].shapes) :
                           starts_with_viz(slides[idx + 1].shapes[j].name)
        HasText(idx) == \E j \in 1..Len(slides[idx + 1].shapes) :
                            slides[idx + 1].shapes[j].has_text_frame
        missing_viz_indices ==
            SelectSeq(content_indices, LAMBDA idx : idx >= Len(slides) \/ ~HasViz(idx))
        non_editable_text_indices ==
            SelectSeq(content_indices, LAMBDA idx : idx >= Len(slides) \/ ~HasText(idx))
        checks ==
            << [name |-> "no_placeholders", passed |-> placeholder_count = 0,
                details |-> [placeholder_count |-> placeholder_count]],
               [name |-> "content_has_visual", passed |-> Len(missing_viz_indices) = 0,
                details |-> [content_slide_count |-> Len(content_indices),
                             missing_viz_indices |-> missing_viz_indices]],
               [name |-> "content_has_editable_text", passed |-> Len(non_editable_text_indices) = 0,
                details |-> [non_editable_indices |-> non_editable_text_indices]] >>
    IN  [passed |-> \A k \in 1..Len(checks) : checks[k].passed,
         checks |-> checks,
         meta |-> [total_slides |-> Len(slides), content_slide_count |-> Len(content_indices)]]

\* ----------------------------------------------------------------------
\* Calls
\* ----------------------------------------------------------------------

Idle ==
    /\ pc = "idle"
    /\ items = None /\ deduped = None
    /\ summary = None /\ collected = None
    /\ points = None /\ mode = None /\ buckets = None /\ payloads = None
    /\ strategy = None /\ outline = None /\ error = "none"
    /\ module_strategy = DEFAULT_STRATEGY
    /\ deck = None /\ report = None
    /\ limit = None
    /\ slide_content = None /\ made_slide = None
    /\ module_theme = DEFAULT_THEME /\ module_fallbacks = SECTION_FALLBACKS
    /\ caller_summary = None /\ caller_strategy = None

\* _dedupe_keep_order(items)
DedupeKeepOrder(list) ==
    /\ pc = "idle"
    /\ items' = list
    /\ deduped' = dedupe_keep_order(list)
    /\ pc' = "dedupe_keep_order"
    /\ UNCHANGED <<summary, collected, points, mode, buckets, payloads, strategy, outline, error,
                 module_strategy, deck, report, limit, slide_content, made_slide,
                 module_theme, module_fallbacks, caller_summary, caller_strategy>>

\* _collect_points(summary, limit)
CollectPointsUpTo(s, n) ==
    /\ pc = "idle"
    /\ summary' = s
    /\ limit' = n
    /\ collected' = collect_points(s, n)
    /\ pc' = "collect_points"
    /\ UNCHANGED <<items, deduped, points, mode, buckets, payloads, strategy, outline, error,
                 module_strategy, deck, report, slide_content, made_slide,
                 module_theme, module_fallbacks, caller_summary, caller_strategy>>

\* _collect_points(summary), with the default limit
CollectPoints(s) == CollectPointsUpTo(s, COLLECT_LIMIT)

\* One run of _section_payloads(points, mode): the classification loop fills
\* the buckets, the payloads are assembled from them.
ClassificationPass(pts, m) ==
    /\ points' = pts
    /\ mode' = m
    /\ buckets' = classified_buckets(pts)
    /\ payloads' = payloads_of(buckets', m)
    /\ pc' = "section_payloads"
    /\ UNCHANGED <<items, deduped, summary, collected, strategy, outline, error, module_strategy,
                 deck, report, limit, slide_content, made_slide,
                 module_theme, module_fallbacks, caller_summary, caller_strategy>>

SectionPayloads(pts, m) == pc = "idle" /\ ClassificationPass(pts, m)

InitDedupe == Idle
NextDedupe == pc = "idle" /\ \E list \in ItemLists : DedupeKeepOrder(list)
SpecDedupe == InitDedupe /\ [][NextDedupe]_vars

InitCollect == Idle
NextCollect == pc = "idle" /\ \E s \in CollectSummaries : CollectPoints(s)
SpecCollect == InitCollect /\ [][NextCollect]_vars

\* _collect_points on one document.
InitSurvival == Idle
NextSurvival == pc = "idle" /\ \E s \in SurvivalSummaries : CollectPoints(s)
SpecSurvival == InitSurvival /\ [][NextSurvival]_vars

\* _make_slide(mode, page_type, title, content) with the other parameters at
\* their defaults
MakeSlide(m, page_type, title, c) ==
    /\ pc = "idle"
    /\ mode' = m
    /\ slide_content' = c
    /\ made_slide' = make_slide(m, page_type, title, c, NoKind, PyStr(STYLE_rigorous), PyNone, <<>>)
    /\ pc' = "make_slide"
    /\ UNCHANGED <<items, deduped, summary, collected, points, buckets, payloads, strategy,
                 outline, error, module_strategy, deck, report, limit,
                 module_theme, module_fallbacks, caller_summary, caller_strategy>>

\* _make_slide on content of every length around the two display limits.
InitSlide == Idle
NextSlide ==
    /\ pc = "idle"
    /\ \E m \in Modes, page_type \in SlidePageTypes, c \in SlideContents :
           MakeSlide(m, page_type, TITLE_results, c)
SpecSlide == InitSlide /\ [][NextSlide]_vars

\* _collect_points on documents of every class, with limits that cut.
InitCap == Idle
NextCap == pc = "idle" /\ \E s \in CapSummaries, n \in CollectLimits : CollectPointsUpTo(s, n)
SpecCap == InitCap /\ [][NextCap]_vars

InitPayloads == Idle
NextPayloads == pc = "idle" /\ \E pts \in PointLists, m \in Modes : SectionPayloads(pts, m)
SpecPayloads == InitPayloads /\ [][NextPayloads]_vars

\* _section_payloads on points that match several keyword sets.
InitFiling == Idle
NextFiling == pc = "idle" /\ \E pts \in FilingLists, m \in Modes : SectionPayloads(pts, m)
SpecFiling == InitFiling /\ [][NextFiling]_vars

\* _section_payloads on more points of a section than a slide takes.
InitRanking == Idle
NextRanking == pc = "idle" /\ \E pts \in RankingLists, m \in Modes : SectionPayloads(pts, m)
SpecRanking == InitRanking /\ [][NextRanking]_vars

\* _section_payloads on points of which several match no keyword set.
InitBalancing == Idle
NextBalancing == pc = "idle" /\ \E pts \in BalancingLists, m \in Modes : SectionPayloads(pts, m)
SpecBalancing == InitBalancing /\ [][NextBalancing]_vars

\* Successive runs of _section_payloads, each on its own point list.
InitPasses == Idle
NextPasses == \E pts \in PassLists, m \in Modes : ClassificationPass(pts, m)
SpecPasses == InitPasses /\ [][NextPasses]_vars

\* ----------------------------------------------------------------------
\* Inputs of build_outline
\* ----------------------------------------------------------------------

KP_noise == <<P_fb_outlook0, P_at, P_doi, P_REFEREE, P_URL_upper, P_plain2, P_long>>

BuildDocs ==
    { Document(F_thesis, KIND_docx, KP_thesis),
      Document(F_referees, KIND_docx, KP_review),
      Document(F_paper, KIND_pdf, KP_mixed),
      Document(F_point_by_point, KIND_docx, KP_noise) }

Image(path) == [path |-> path, width |-> 1200, height |-> 800]

\* What a summary holds besides its documents: nothing; an empty image list
\* and an empty title; images (one of them without a path) and a title.
SummaryAssets ==
    { <<>>,
      [images |-> <<>>, project_title |-> <<>>],
      [images |-> <<Image(IMG_1), [width |-> 10, height |-> 10], Image(IMG_2)>>,
       project_title |-> PROJECT_TITLE] }

BuildSummaries ==
    SummaryAssets \cup
    { [documents |-> docs] @@ assets :
          docs \in ListsUpTo(BuildDocs, MaxDocs), assets \in SummaryAssets }

\* The strategy of the tests.
STRATEGY_full ==
    [DEFAULT_STRATEGY EXCEPT !.target_slide_count = PyInt(24)]

Strategies ==
    { PyNone,
      PyDict(<<>>),
      PyDict(STRATEGY_full),
      PyDict([require_chapter_dividers |-> PyBool(FALSE)]),
      PyDict([require_chapter_dividers |-> PyInt(0), target_slide_count |-> PyStr(TEXT_abc),
            citation_policy |-> PyInt(7)]),
      PyDict([require_chapter_dividers |-> PyNone, max_minutes_per_slide |-> FloatNaN,
            target_slide_count |-> PyFloat(30, TRUE)]),
      PyDict([require_chapter_dividers |-> PyStr(TEXT_no), target_slide_count |-> PyInt(3),
            max_minutes_per_slide |-> PyStr(TEXT_5_padded),
            style_by_section |-> PyDict([clinical |-> PyStr(STYLE_balanced), extra |-> PyStr(STYLE_popular)]),
            reviewer_notes |-> PyStr(TEXT_abc)]),
      PyDict([style_by_section |-> PyStr(TEXT_abc), max_minutes_per_slide |-> PyList(<<>>),
            audience_profile |-> PyStr(TEXT_abc)]),
      PyDict([target_slide_count |-> FloatInf]),
      PyDict([reviewer_notes |-> PyNone, target_slide_count |-> PyBool(TRUE),
            style_by_section |-> PyDict([ai_principle |-> PyNone])]),
      PyDict([max_minutes_per_slide |-> FloatInf, require_chapter_dividers |-> PyBool(FALSE)]) }

CallModes == Modes \cup {"both"}

\* The caller's strategy after _normalize_strategy(raw): raw is read through
\* raw.items() (line 212) and its style_by_section through the update of the
\* copy base_styles (lines 214-216); nothing is assigned into either.
strategy_after_normalize(raw) == raw

\* The caller's summary after build_outline: it is read with get (lines 236,
\* 421, 427); _collect_points sorts a copy of its documents (lines 236, 249).
summary_after_build(s) == s

\* The module-level SECTION_FALLBACKS after _section_payloads: chosen is a
\* slice of the bucket (line 341), and the fallbacks are appended to it.
fallbacks_after_payloads(fallbacks) == fallbacks

\* Variant for C27: the override is merged into the theme the outline holds.
theme_after_update_in_place(theme, theme_override) == Updated(theme, theme_override)

\* The module-level DEFAULT_THEME after the pipeline merged a theme override
\* into an outline that holds it (build_outline.py line 586): the update is
\* made on a copy, dict(outline.get("theme", {})), which then replaces it.
theme_after_override(theme, theme_override) == theme

\* One run of build_outline(summary, mode, strategy) in the process as the
\* runs before it left it.  The mode is checked before _normalize_strategy
\* is reached.
OutlineRun(s, m, raw_strategy) ==
    /\ summary' = s
    /\ mode' = m
    /\ strategy' = raw_strategy
    /\ LET r == build_outline_from(module_strategy, s, m, raw_strategy)
       IN  /\ error' = r.exc
           /\ outline' = IF r.exc = "none" THEN r.value ELSE None
    /\ module_strategy' = IF m \in Modes
                          THEN defaults_after(module_strategy, raw_strategy)
                          ELSE module_strategy
    /\ module_fallbacks' = IF m \in Modes /\ normalize_strategy_from(module_strategy, raw_strategy).exc = "none"
                           THEN fallbacks_after_payloads(module_fallbacks)
                           ELSE module_fallbacks
    /\ module_theme' = module_theme
    /\ caller_summary' = IF m \in Modes /\ normalize_strategy_from(module_strategy, raw_strategy).exc = "none"
                         THEN summary_after_build(s)
                         ELSE s
    /\ caller_strategy' = IF m \in Modes THEN strategy_after_normalize(raw_strategy) ELSE raw_strategy
    /\ pc' = "build_outline"
    /\ UNCHANGED <<items, deduped, collected, points, buckets, payloads, deck, report, limit,
                 slide_content, made_slide>>

\* build_outline(summary, mode, strategy), the first call of a process
BuildOutline(s, m, raw_strategy) == pc = "idle" /\ OutlineRun(s, m, raw_strategy)

Init == Idle
Next ==
    /\ pc = "idle"
    /\ \E s \in BuildSummaries, m \in CallModes, raw_strategy \in Strategies :
           BuildOutline(s, m, raw_strategy)
Spec == Init /\ [][Next]_vars

\* Runs of build_outline one after another in one process.
MaxRunDocs == 1

RunDocs ==
    { Document(F_thesis, KIND_docx, KP_thesis), Document(F_paper, KIND_pdf, KP_mixed) }

RunAssets ==
    { <<>>, [images |-> <<Image(IMG_1), Image(IMG_2)>>, project_title |-> PROJECT_TITLE] }

RunSummaries ==
    { [documents |-> docs] @@ assets : docs \in ListsUpTo(RunDocs, MaxRunDocs), assets \in RunAssets }

\* No strategy; the strategy of the tests; one without dividers; one with
\* styles of its own; one whose subtitle is longer than the presentation
\* limit; one that makes _normalize_strategy raise.
RunStrategies ==
    { PyNone,
      PyDict(STRATEGY_full),
      PyDict([require_chapter_dividers |-> PyBool(FALSE)]),
      PyDict([style_by_section |-> PyDict([clinical |-> PyStr(STYLE_balanced), extra |-> PyStr(STYLE_popular)])]),
      PyDict([audience_profile |-> PyStr(P_long)]),
      PyDict([target_slide_count |-> FloatInf,
            style_by_section |-> PyDict([ai_principle |-> PyStr(STYLE_balanced)])]) }

InitRuns == Idle
NextRuns ==
    \E s \in RunSummaries, m \in CallModes, raw_strategy \in RunStrategies :
        OutlineRun(s, m, raw_strategy)
SpecRuns == InitRuns /\ [][NextRuns]_vars

\* The theme merge of run_pipeline.main after build_outline returned:
\*   if theme_override: merged = dict(outline.get("theme", {}));
\*   merged.update(theme_override); outline["theme"] = merged
ThemeOverride(theme_override) ==
    /\ pc = "build_outline" /\ error = "none"
    /\ theme_override # <<>>
    /\ outline' = [outline EXCEPT !.theme = Updated(outline.theme, theme_override)]
    /\ module_theme' = theme_after_override(module_theme, theme_override)
    /\ pc' = "theme_override"
    /\ UNCHANGED <<items, deduped, summary, collected, points, mode, buckets, payloads,
                 strategy, error, module_strategy, deck, report, limit, slide_content,
                 made_slide, module_fallbacks, caller_summary, caller_strategy>>

\* Theme files: one colour replaced; a font replaced and a key of its own;
\* every colour replaced.
ThemeOverrides ==
    { [title_color |-> "B91C1C"],
      [font_name |-> "Arial", logo_position |-> "top_right"],
      [title_color |-> "111827", body_color |-> "111827", accent_color |-> "F59E0B",
       background_color |-> "FFFFFF"] }

\* No summary content; a thesis with images; a paper.
ProcessSummaries ==
    { [documents |-> <<>>],
      [documents |-> <<Document(F_thesis, KIND_docx, KP_thesis)>>,
       images |-> <<Image(IMG_1), Image(IMG_2)>>, project_title |-> PROJECT_TITLE],
      [documents |-> <<Document(F_paper, KIND_pdf, KP_mixed)>>] }

\* No strategy; the strategy of the tests; styles of its own and a key
\* build_outline does not know; no dividers; one that makes
\* _normalize_strategy raise after the styles were merged.
ProcessStrategies ==
    { PyNone,
      PyDict(STRATEGY_full),
      PyDict([reviewer_notes |-> PyStr(TEXT_abc),
              style_by_section |-> PyDict([clinical |-> PyStr(STYLE_balanced),
                                           extra |-> PyStr(STYLE_popular)])]),
      PyDict([require_chapter_dividers |-> PyBool(FALSE)]),
      PyDict([target_slide_count |-> FloatInf,
              style_by_section |-> PyDict([ai_principle |-> PyStr(STYLE_balanced)])]) }

\* The modes loop of run_pipeline.main, and other callers of build_outline
\* in the same process: runs one after another, each followed or not by the
\* theme merge.
InitProcess == Idle
NextProcess ==
    \/ \E s \in ProcessSummaries, m \in CallModes, raw_strategy \in ProcessStrategies :
           OutlineRun(s, m, raw_strategy)
    \/ \E theme_override \in ThemeOverrides : ThemeOverride(theme_override)
SpecProcess == InitProcess /\ [][NextProcess]_vars

\* ----------------------------------------------------------------------
\* The pipeline: build_outline, render_ppt_from_outline, validate_deck
\* ----------------------------------------------------------------------

\* The presentation of a template file with seven layouts, none of them
\* blank, and a slide of its own; one with two layouts only.
TEMPLATE_with_slide ==
    [layouts |-> [i \in 1..7 |-> TITLE_LAYOUT],
     slides |-> <<[shapes |-> TITLE_LAYOUT, notes |-> None]>>]
TEMPLATE_two_layouts == [layouts |-> <<TITLE_LAYOUT, BLANK_LAYOUT>>, slides |-> <<>>]

\* No template path; a path to no file; the two template files.
Templates ==
    { PyNone,
      [exists |-> FALSE, pres |-> TEMPLATE_with_slide],
      [exists |-> TRUE, pres |-> TEMPLATE_with_slide],
      [exists |-> TRUE, pres |-> TEMPLATE_two_layouts] }

\* The deck test_qa_deck_contract makes by hand.
SAMPLE_DECK ==
    << [shapes |-> add_shape(add_textbox(add_textbox(<<>>, <<"content", "title">>),
                                         <<"content", "body">>),
                             <<"viz", "panel">>),
        notes |-> None] >>

\* Decks that the renderer did not make: the hand-made one, one without
\* slides, the slides of a template file.
OtherDecks == { SAMPLE_DECK, <<>>, TEMPLATE_with_slide.slides }

\* render_ppt_from_outline(outline, deck_path, template_path) on the outline
\* build_outline returned
RenderPpt(template) ==
    /\ pc = "build_outline" /\ error = "none"
    /\ deck' = render_ppt_from_outline(outline, template)
    /\ pc' = "render_ppt_from_outline"
    /\ UNCHANGED <<items, deduped, summary, collected, points, mode, buckets, payloads,
                 strategy, outline, error, module_strategy, report, limit, slide_content, made_slide,
                 module_theme, module_fallbacks, caller_summary, caller_strategy>>

\* A deck file that comes from elsewhere is put next to the outline.
OpenDeck(slides) ==
    /\ pc = "build_outline" /\ error = "none"
    /\ deck' = slides
    /\ pc' = "other_deck"
    /\ UNCHANGED <<items, deduped, summary, collected, points, mode, buckets, payloads,
                 strategy, outline, error, module_strategy, report, limit, slide_content, made_slide,
                 module_theme, module_fallbacks, caller_summary, caller_strategy>>

\* validate_deck(deck_path, outline)
ValidateDeck ==
    /\ pc \in {"render_ppt_from_outline", "other_deck"}
    /\ report' = validate_deck(deck, outline)
    /\ pc' = IF pc = "render_ppt_from_outline" THEN "validate_deck" ELSE "validate_other_deck"
    /\ UNCHANGED <<items, deduped, summary, collected, points, mode, buckets, payloads,
                 strategy, outline, error, module_strategy, deck, limit, slide_content, made_slide,
                 module_theme, module_fallbacks, caller_summary, caller_strategy>>

InitPipeline == Idle
NextPipeline ==
    \/ \E s \in RunSummaries, m \in CallModes, raw_strategy \in Strategies :
           BuildOutline(s, m, raw_strategy)
    \/ \E template \in Templates : RenderPpt(template)
    \/ \E slides \in OtherDecks : OpenDeck(slides)
    \/ ValidateDeck
SpecPipeline == InitPipeline /\ [][NextPipeline]_vars

\* ----------------------------------------------------------------------
\* Scenario A: one thesis document with a point for each section
\* ----------------------------------------------------------------------

\* Points that match the keywords of one section only; among them a short
\* one, one with a URL, one longer than the presentation limit, one with
\* irregular whitespace and two that are fallback entries themselves.
ScenarioPoints ==
    [background |-> {P_bg},
     methodology |-> {P_method, P_eng_topic, P_short, P_url, P_fb_background1},
     results |-> {P_result, P_result_long},
     outlook |-> {P_outlook, P_outlook_ws, P_fb_outlook0}]

ScenarioDocs ==
    { Document(F_thesis, kind, key_points) :
          kind \in {KIND_docx, KIND_pdf},
          key_points \in
              UNION { {<<b, m, r, o>>, <<o, r, m, b>>} :
                          b \in ScenarioPoints.background, m \in ScenarioPoints.methodology,
                          r \in ScenarioPoints.results, o \in ScenarioPoints.outlook } }

ScenarioSummaries == { [documents |-> <<doc>>] : doc \in ScenarioDocs }

InitScenario == Idle
NextScenario ==
    \E s \in ScenarioSummaries, m \in Modes, raw_strategy \in {PyNone, PyDict(STRATEGY_full)} :
        BuildOutline(s, m, raw_strategy)
SpecScenario == InitScenario /\ [][NextScenario]_vars

\* ======================================================================
\* Claims
\* ======================================================================

Min(a, b) == IF a <= b THEN a ELSE b

\* The target size N the claims name for a mode.
ClaimedSize(m) == IF m = "presentation" THEN 3 ELSE 4

\* The section whose bucket holds text t after a classification loop.
FiledUnder(bs, t) == CHOOSE section \in DOMAIN bs : t \in Range(bs[section])

\* Whether text t matches a keyword of at least one of the four keyword sets.
matches_keyword ==
    [t \in Texts |->
        AnyIn(BACKGROUND_KEYWORDS \o METHOD_KEYWORDS \o RESULT_KEYWORDS \o OUTLOOK_KEYWORDS, Lower(t))]

\* ---------------------------------------------------------------- C1
\* C1 (fallback completeness): when no point survived collection, every one
\* of the four payloads _section_payloads returns has exactly N entries
\* (3 in presentation, 4 in self_explanatory), each from that section's
\* fallback list.
C1_FallbackCompleteness ==
    (pc = "section_payloads" /\ points = <<>>) =>
        \A section \in DOMAIN SECTION_FALLBACKS :
            /\ Len(payloads[section]) = ClaimedSize(mode)
            /\ Range(payloads[section]) \subseteq Range(SECTION_FALLBACKS[section])

\* ---------------------------------------------------------------- C2
TOKEN_http == <<104, 116, 116, 112, 58, 47, 47>>
TOKEN_https == <<104, 116, 116, 112, 115, 58, 47, 47>>
TOKEN_doi == <<100, 111, 105, 46, 111, 114, 103>>

\* The raw points C2 names: one with an '@', an 'http://', 'https://' or
\* 'doi.org' substring, or (in any case) a reviewer/rebuttal pattern.
claimed_noise ==
    [t \in RawTexts |->
        \/ Contains(t, AT_SIGN)
        \/ Contains(t, TOKEN_http) \/ Contains(t, TOKEN_https) \/ Contains(t, TOKEN_doi)
        \/ AnyIn(REBUTTAL_PATTERNS, Lower(t))]

\* The forms in which a raw point can show on a slide: whole (as it is or
\* whitespace-collapsed) or cut to either on-slide limit.
shown_forms ==
    [t \in RawTexts |->
        [whole |-> {t, collapsed[t]},
         cut |-> {truncate(x, max_len) : x \in {t, collapsed[t]}, max_len \in {78, 190}}]]

\* A raw point shows in a slide item: whole, as the item or inside it, or cut.
ShowsIn(raw, item) ==
    \/ item \in shown_forms[raw].cut
    \/ \E form \in shown_forms[raw].whole : Contains(item, form)

\* The raw points of the documents of a summary.
RawPointsOf(s) ==
    UNION { Range(d.key_points) : d \in Range(Get(s, "documents", <<>>)) }

\* The on_slide_content items of all slides of an outline.
SlideItems(o) ==
    UNION { Range(o.slides[i].on_slide_content) :
              i \in {j \in 1..Len(o.slides) : "on_slide_content" \in DOMAIN o.slides[j]} }

\* C2 (noise exclusion): no raw point with an '@', a URL or DOI substring or a
\* reviewer/rebuttal pattern shows, whole or truncated, in the
\* on_slide_content of any slide of the outline build_outline returns.
C2_NoiseExclusion ==
    (pc = "build_outline" /\ error = "none") =>
        \A raw \in RawPointsOf(summary) :
            claimed_noise[raw] => \A item \in SlideItems(outline) : ~ShowsIn(raw, item)

\* An outline was built from a document that is not excluded as a whole and
\* holds both a noise point and a point that reached a slide.
C2_Witness ==
    /\ pc = "build_outline" /\ error = "none"
    /\ \E d \in Range(Get(summary, "documents", <<>>)) :
          /\ ~is_rebuttal_source(d.file)
          /\ \E raw \in Range(d.key_points) : claimed_noise[raw] /\ Len(raw) > 78
          /\ \E raw \in Range(d.key_points) :
                ~claimed_noise[raw] /\ \E item \in SlideItems(outline) : ShowsIn(raw, item)

\* ---------------------------------------------------------------- C3
\* C3 (whole-document rebuttal exclusion): a document whose file name holds,
\* in any case, a reviewer-response pattern is flagged by the extractor's
\* _is_rebuttal_file and by the builder's _is_rebuttal_source, a name without
\* a pattern is flagged by neither, and _collect_points returns what it
\* returns for the summary without the flagged document.
C3_RebuttalDocumentExcluded ==
    pc = "collect_points" =>
        \A i \in 1..Len(summary.documents) :
            LET name == summary.documents[i].file
                without == [documents |->
                               SubSeq(summary.documents, 1, i - 1)
                                   \o SubSeq(summary.documents, i + 1, Len(summary.documents))]
            IN  IF AnyIn(REBUTTAL_FILE_PATTERNS, Lower(name))
                THEN /\ is_rebuttal_file(name)
                     /\ is_rebuttal_source(name)
                     /\ collected = collect_points(without, COLLECT_LIMIT)
                ELSE ~is_rebuttal_file(name) /\ ~is_rebuttal_source(name)

\* ---------------------------------------------------------------- C4
\* The index of the first item whose whitespace-collapsed text is key.
FirstIndex(list, key) ==
    CHOOSE i \in 1..Len(list) :
        /\ CollapseWhitespace(list[i]) = key
        /\ \A j \in 1..(i - 1) : CollapseWhitespace(list[j]) # key

\* C4 (order-preserving dedup): _dedupe_keep_order returns one entry per
\* distinct non-empty whitespace-collapsed text of its input, the entries in
\* the order of the first occurrences of their texts, so at most as many
\* entries as there are distinct collapsed texts.
C4_DedupOrderPreserving ==
    pc = "dedupe_keep_order" =>
        LET keys == {CollapseWhitespace(items[i]) : i \in 1..Len(items)}
        IN  /\ Range(deduped) = keys \ {<<>>}
            /\ Cardinality(Range(deduped)) = Len(deduped)
            /\ Len(deduped) <= Cardinality(keys)
            /\ \A a, b \in 1..Len(deduped) :
                  a < b => FirstIndex(items, deduped[a]) < FirstIndex(items, deduped[b])

\* A whitespace variant of an earlier item was dropped between two entries
\* that were kept.
C4_Witness ==
    /\ pc = "dedupe_keep_order"
    /\ Len(deduped) >= 2
    /\ \E i, j \in 1..Len(items) :
          /\ i < j /\ j < Len(items)
          /\ items[i] # items[j]
          /\ CollapseWhitespace(items[i]) = CollapseWhitespace(items[j])
          /\ CollapseWhitespace(items[Len(items)]) \notin {<<>>, CollapseWhitespace(items[i])}

\* ---------------------------------------------------------------- C5
\* C5 as claimed (classification determinism): in two classification passes
\* a text is filed under the same section, whatever the other points of the
\* passes and their order, also when it matches no keyword set.
C5_FiledByTextAlone ==
    [][pc = "section_payloads" =>
          \A t \in Range(points) \cap Range(points') :
              FiledUnder(buckets, t) = FiledUnder(buckets', t)]_vars

\* C5 as amended: a text that matches a keyword set is filed under the
\* section _classify_point names in every pass; a text that matches none is
\* filed under results or methodology.
C5_LabelledFiledByTextAlone ==
    [][/\ pc = "section_payloads" =>
             \A t \in Range(points) \cap Range(points') :
                 matches_keyword[t] => FiledUnder(buckets, t) = FiledUnder(buckets', t)
       /\ pc' = "section_payloads" =>
             \A t \in Range(points') :
                 IF matches_keyword[t]
                 THEN FiledUnder(buckets', t) = classify_point(t)
                 ELSE FiledUnder(buckets', t) \in {"results", "methodology"}]_vars

\* A pass filed a keyword-matched text after load balancing had put an
\* unmatched text under methodology.
C5_Witness ==
    /\ pc = "section_payloads"
    /\ \E a, b \in 1..Len(points) :
          /\ a < b
          /\ ~matches_keyword[points[a]]
          /\ FiledUnder(buckets, points[a]) = "methodology"
          /\ matches_keyword[points[b]]

\* ---------------------------------------------------------------- C6
\* The slides of an outline that are neither cover nor chapter divider.
ContentSlides(o) ==
    {o.slides[i] : i \in {j \in 1..Len(o.slides) :
                             o.slides[j].page_type \notin {"cover", "section_divider"}}}

\* A slide carries a non-empty text under a key.
CarriesText(slide, key) == key \in DOMAIN slide /\ slide[key] # <<>>

\* What C6 says of presentation mode.
PresentationContract(o) ==
    o.mode = "presentation" =>
        \A slide \in ContentSlides(o) :
            CarriesText(slide, "speaker_script") /\ CarriesText(slide, "speaker_notes")

Skeleton(dividers) ==
    LET divider == IF dividers THEN <<"section_divider">> ELSE <<>>
    IN  <<"cover", "agenda">>
            \o divider \o <<"background">>
            \o divider \o <<"methodology">>
            \o divider \o <<"results">>
            \o divider \o <<"outlook">>
            \o <<"conclusion", "qa">>

\* Whether the strategy handed to build_outline asks for chapter dividers:
\* the truth value of the field where it is given and not None, else the
\* default.
AsksForDividers(raw) ==
    IF truthy(raw) /\ "require_chapter_dividers" \in DOMAIN raw.d
          /\ raw.d.require_chapter_dividers # PyNone
    THEN truthy(raw.d.require_chapter_dividers)
    ELSE TRUE

\* C7 (slide skeleton): the page_type sequence of an outline is cover,
\* agenda, [divider], background, [divider], methodology, [divider], results,
\* [divider], outlook, conclusion, qa, with the four dividers exactly when the
\* normalized require_chapter_dividers is true: 12 or 8 slides, whatever the
\* points, the images and target_slide_count.
C7_SlideSkeleton ==
    (pc = "build_outline" /\ error = "none") =>
        LET dividers == outline.strategy.require_chapter_dividers = PyBool(TRUE)
        IN  /\ outline.strategy.require_chapter_dividers \in {PyBool(TRUE), PyBool(FALSE)}
            /\ dividers = AsksForDividers(strategy)
            /\ [i \in 1..Len(outline.slides) |-> outline.slides[i].page_type] = Skeleton(dividers)
            /\ Len(outline.slides) = IF dividers THEN 12 ELSE 8

\* An outline without dividers, built from documents and images under a
\* strategy that names a target_slide_count.
C7_Witness ==
    /\ pc = "build_outline" /\ error = "none"
    /\ Len(outline.slides) = 8
    /\ "documents" \in DOMAIN summary /\ collect_points(summary, COLLECT_LIMIT) # <<>>
    /\ image_paths(summary) # <<>>
    /\ "target_slide_count" \in DOMAIN strategy.d

\* ---------------------------------------------------------------- C8
\* C8 (failure only on an unrecognized mode): build_outline raises exactly
\* when mode is not presentation or self_explanatory, and the error is then
\* the invalid-argument one whatever the strategy; for a recognized mode,
\* every summary and every strategy, malformed numeric fields included,
\* yield an outline whose background, methodology, results and outlook
\* slides each have at least one content item.
C8_FailsOnlyOnMode ==
    pc = "build_outline" =>
        /\ error # "none" <=> mode \notin {"presentation", "self_explanatory"}
        /\ mode \notin {"presentation", "self_explanatory"} => error = "ValueError"
        /\ error = "none" =>
               \A section \in DOMAIN SECTION_FALLBACKS :
                   \E i \in 1..Len(outline.slides) :
                       /\ outline.slides[i].page_type = section
                       /\ outline.slides[i].on_slide_content # <<>>

\* ---------------------------------------------------------------- C9
\* C9 (section assembly size and order): with r real points filed under a
\* section, f entries in its fallback list and target size N, the payload has
\* min(N, r + f) entries: min(r, N) distinct real points of the section, then
\* the first max(0, min(N - r, f)) fallback entries in their fixed order.
C9_AssemblySizeAndOrder ==
    pc = "section_payloads" =>
        \A section \in DOMAIN SECTION_FALLBACKS :
            LET fallback == SECTION_FALLBACKS[section]
                r == Len(buckets[section])
                f == Len(fallback)
                N == ClaimedSize(mode)
                payload == payloads[section]
                real == Min(r, N)
            IN  /\ Len(payload) = Min(N, r + f)
                /\ {payload[i] : i \in 1..real} \subseteq Range(buckets[section])
                /\ Cardinality({payload[i] : i \in 1..real}) = real
                /\ Len(payload) - real = Max(0, Min(N - r, f))
                /\ SubSeq(payload, real + 1, Len(payload)) = SubSeq(fallback, 1, Len(payload) - real)

\* One section holds more real points than fit, another holds some and is
\* filled up from its fallback list.
C9_Witness ==
    /\ pc = "section_payloads"
    /\ \E section \in DOMAIN SECTION_FALLBACKS : Len(buckets[section]) > ClaimedSize(mode)
    /\ \E section \in DOMAIN SECTION_FALLBACKS :
          /\ Len(buckets[section]) \in 1..(ClaimedSize(mode) - 1)
          /\ payloads[section][Len(buckets[section]) + 1] = SECTION_FALLBACKS[section][1]

\* --------------------------------------------------------------- C10
\* C10 (section exclusivity): every collected point is in the payload of at
\* most one section; a string of a section's fallback list is only in that
\* section's payload and only where the section has fewer than N real
\* points; no payload holds the same string twice.
C10_SectionExclusivity ==
    pc = "section_payloads" =>
        /\ \A t \in Range(points) :
              Cardinality({section \in DOMAIN SECTION_FALLBACKS : t \in Range(payloads[section])}) <= 1
        /\ \A section \in DOMAIN SECTION_FALLBACKS :
              \A t \in Range(SECTION_FALLBACKS[section]) :
                  \A other \in DOMAIN SECTION_FALLBACKS :
                      t \in Range(payloads[other]) =>
                          other = section /\ Len(buckets[section]) < ClaimedSize(mode)
        /\ \A section \in DOMAIN SECTION_FALLBACKS :
              Cardinality(Range(payloads[section])) = Len(payloads[section])

\* --------------------------------------------------------------- C11
\* The value the caller's strategy gives a field: PyNone where the strategy
\* is absent or empty, or the field is missing or null.
Supplied(raw, key) ==
    IF truthy(raw) /\ key \in DOMAIN raw.d THEN raw.d[key] ELSE PyNone

\* What C11 names as the normalized value of a numeric field: the default
\* when the field is missing, null or not convertible to an integer, else
\* max(floor, int(value)).
ClaimedNumber(raw, key, floor, default) ==
    LET value == Supplied(raw, key)
    IN  IF value = PyNone \/ int_of(value).exc # "none" THEN default
        ELSE Max(floor, int_of(value).n)

\* C11 (strategy numeric normalization): for every caller strategy and a
\* recognized mode, build_outline does not fail, the normalized
\* target_slide_count is 18 when the field is missing, null or not
\* convertible to an integer and max(8, int(value)) otherwise, and the
\* normalized max_minutes_per_slide is 1 or max(1, int(value)) likewise.
C11_NumericNormalization ==
    (pc = "build_outline" /\ mode \in {"presentation", "self_explanatory"}) =>
        /\ error = "none"
        /\ outline.strategy.target_slide_count
               = PyInt(ClaimedNumber(strategy, "target_slide_count", 8, 18))
        /\ outline.strategy.max_minutes_per_slide
               = PyInt(ClaimedNumber(strategy, "max_minutes_per_slide", 1, 1))

\* --------------------------------------------------------------- C12
\* The style_by_section keys the caller supplies: those of the field where it
\* is a dict, none otherwise.
CallerStyles(raw) ==
    LET value == Supplied(raw, "style_by_section")
    IN  IF value.t = "dict" THEN value.d ELSE <<>>

\* The strategy keys the caller supplies that are not known fields.
UnknownKeys(raw) ==
    IF truthy(raw) THEN DOMAIN raw.d \ DOMAIN DEFAULT_STRATEGY ELSE {}

\* The style_by_section part of C12.
StylesMerged(raw, normalized) ==
    LET styles == normalized.style_by_section.d
        caller == CallerStyles(raw)
    IN  /\ DOMAIN styles = DOMAIN DEFAULT_STYLES \cup DOMAIN caller
        /\ \A k \in DOMAIN styles :
              styles[k] = IF k \in DOMAIN caller THEN caller[k] ELSE DEFAULT_STYLES[k]

\* C12 as claimed (strategy merge): style_by_section holds every default and
\* every caller key, the caller's value winning; every unknown key the caller
\* supplies is in the normalized strategy with the caller's value.
C12_StrategyMergeAllKeys ==
    (pc = "build_outline" /\ error = "none") =>
        /\ StylesMerged(strategy, outline.strategy)
        /\ \A k \in UnknownKeys(strategy) :
              k \in DOMAIN outline.strategy /\ outline.strategy[k] = strategy.d[k]

\* C12 as amended: as claimed for style_by_section; an unknown key the
\* caller supplies with a value other than None is in the normalized
\* strategy with the caller's value, one supplied with None is not in it.
C12_StrategyMerge ==
    (pc = "build_outline" /\ error = "none") =>
        /\ StylesMerged(strategy, outline.strategy)
        /\ \A k \in UnknownKeys(strategy) :
              IF strategy.d[k] = PyNone
              THEN k \notin DOMAIN outline.strategy
              ELSE k \in DOMAIN outline.strategy /\ outline.strategy[k] = strategy.d[k]

\* An outline built under a strategy that overrides one default style, adds
\* a style of its own and holds an unknown key.
C12_Witness ==
    /\ pc = "build_outline" /\ error = "none"
    /\ DOMAIN CallerStyles(strategy) \cap DOMAIN DEFAULT_STYLES # {}
    /\ DOMAIN CallerStyles(strategy) \ DOMAIN DEFAULT_STYLES # {}
    /\ \E k \in DOMAIN CallerStyles(strategy) \cap DOMAIN DEFAULT_STYLES :
          CallerStyles(strategy)[k] # DEFAULT_STYLES[k]
    /\ \E k \in UnknownKeys(strategy) : strategy.d[k] # PyNone

\* --------------------------------------------------------------- C13
\* C13 (slide numbering): in every outline build_outline returns, the i-th
\* slide has slide_number i, so the numbers are 1..len(slides) in order,
\* without gaps or repeats, with or without chapter dividers.
C13_SlideNumbering ==
    (pc = "build_outline" /\ error = "none") =>
        /\ \A i \in 1..Len(outline.slides) : outline.slides[i].slide_number = i
        /\ {outline.slides[i].slide_number : i \in 1..Len(outline.slides)} = 1..Len(outline.slides)

\* An outline with chapter dividers whose last slide, the qa slide, has the
\* number of slides as its number.
C13_Witness ==
    /\ pc = "build_outline" /\ error = "none"
    /\ \E i \in 1..Len(outline.slides) : outline.slides[i].page_type = "section_divider"
    /\ outline.slides[Len(outline.slides)].page_type = "qa"
    /\ outline.slides[Len(outline.slides)].slide_number = Len(outline.slides)

\* --------------------------------------------------------------- C14
\* Two records agree on every key outside a set of keys.
SameOutside(a, b, keys) ==
    /\ DOMAIN a \ keys = DOMAIN b \ keys
    /\ \A k \in DOMAIN a \ keys : a[k] = b[k]

\* The slide keys that hold content item lists and the mode-specific fields.
ModeSpecificKeys ==
    {"on_slide_content", "bullets", "speaker_script", "speaker_notes", "design_rationale"}

\* Two outlines have the same number of slides, the same page_type and title
\* at every position, and differ at most in mode and, on their slides, in
\* the given keys.
SameUpTo(a, b, slide_keys) ==
    /\ SameOutside(a, b, {"mode", "slides"})
    /\ Len(a.slides) = Len(b.slides)
    /\ \A i \in 1..Len(a.slides) :
          /\ a.slides[i].page_type = b.slides[i].page_type
          /\ a.slides[i].title = b.slides[i].title
          /\ SameOutside(a.slides[i], b.slides[i], slide_keys)

\* Two runs one after the other that both return, with the same summary and
\* strategy and the two modes.
RunsInBothModes ==
    /\ pc = "build_outline" /\ pc' = "build_outline"
    /\ error = "none" /\ error' = "none"
    /\ summary' = summary /\ strategy' = strategy
    /\ mode' # mode

\* C14 as claimed (cross-mode equivalence): the presentation and the
\* self_explanatory outline of one summary and strategy have the same number
\* of slides, the same page_type and title at every position, and differ
\* only in mode, content item lists and speaker_script, speaker_notes and
\* design_rationale.
C14_CrossModeOnlyContentLists ==
    [][RunsInBothModes => SameUpTo(outline, outline', ModeSpecificKeys)]_vars

\* C14 as amended: as claimed, and the two outlines can also differ in the
\* subtitle of the cover slide, which is cut to the mode's limit.
C14_CrossModeEquivalence ==
    [][RunsInBothModes =>
          /\ SameUpTo(outline, outline', ModeSpecificKeys \cup {"subtitle"})
          /\ \A i \in 1..Len(outline.slides) :
                outline.slides[i].page_type # "cover" =>
                    SameOutside(outline.slides[i], outline'.slides[i], ModeSpecificKeys)]_vars

\* A self_explanatory outline with chapter dividers, built from a document
\* and images, whose section slides hold more items than a presentation
\* slide does.
C14_Witness ==
    /\ pc = "build_outline" /\ error = "none"
    /\ mode = "self_explanatory"
    /\ Len(summary.documents) > 0 /\ "images" \in DOMAIN summary
    /\ Len(outline.slides) = 12
    /\ \E i \in 1..Len(outline.slides) :
          /\ outline.slides[i].page_type = "methodology"
          /\ Len(outline.slides[i].on_slide_content) = 4

PathsOf(s) ==
    LET imgs == Get(s, "images", <<>>)
        PathAt(i) == IF "path" \in DOMAIN imgs[i] THEN imgs[i].path ELSE <<>>
        Kept(n) == {i \in 1..n : PathAt(i) # <<>>}
    IN  [k \in 1..Cardinality(Kept(Len(imgs))) |->
            PathAt(CHOOSE i \in Kept(Len(imgs)) : Cardinality(Kept(i)) = k)]

\* The slide of an outline with a page_type.
SlideOf(o, page_type) ==
    o.slides[CHOOSE i \in 1..Len(o.slides) : o.slides[i].page_type = page_type]

\* C16 (image attachment): when the summary has an image with a path, the
\* background, methodology, results and outlook slides each carry a
\* non-empty image path, the one at the section's index modulo the number of
\* paths; when it has none, each carries the empty path and the outline is
\* still produced.
C16_ImageAttachment ==
    (pc = "build_outline" /\ mode \in {"presentation", "self_explanatory"}
        /\ error # "OverflowError") =>
        /\ error = "none"
        /\ \A k \in 1..Len(Sections) :
              LET path == SlideOf(outline, Sections[k]).visual_spec.image_path
                  paths == PathsOf(summary)
              IN  IF paths = <<>> THEN path = <<>>
                  ELSE path # <<>> /\ path = paths[((k - 1) % Len(paths)) + 1]

\* --------------------------------------------------------------- C17
\* The indices, from 0, of the slides of an outline with a rendering type.
IndicesOfType(o, type) == {i - 1 : i \in {j \in 1..Len(o.slides) : o.slides[j].type = type}}

\* C17 (QA-compatible outline fields): in every outline build_outline
\* returns, in either mode, a slide that is neither the cover nor a section
\* divider has type "content", an on_slide_content list and a visual_spec
\* with a non-empty kind, the cover has type "title" and a section divider
\* type "section"; so the slides _content_indices_from_outline lists are the
\* slides of type "content".
C17_QACompatibleFields ==
    (pc = "build_outline" /\ error = "none") =>
        /\ \A i \in 1..Len(outline.slides) :
              LET slide == outline.slides[i]
              IN  /\ slide.page_type = "cover" => slide.type = "title"
                  /\ slide.page_type = "section_divider" => slide.type = "section"
                  /\ slide.page_type \notin {"cover", "section_divider"} =>
                        /\ slide.type = "content"
                        /\ "on_slide_content" \in DOMAIN slide
                        /\ DOMAIN slide.on_slide_content = 1..Len(slide.on_slide_content)
                        /\ "visual_spec" \in DOMAIN slide
                        /\ slide.visual_spec.kind # ""
        /\ LET listed == content_indices_from_outline(outline)
           IN  {listed[k] : k \in 1..Len(listed)} = IndicesOfType(outline, "content")

\* A returned outline with a cover, section dividers and the seven content
\* slides, all of them listed by the QA.
C17_Witness ==
    /\ pc = "build_outline" /\ error = "none" /\ mode = "self_explanatory"
    /\ IndicesOfType(outline, "title") = {0}
    /\ Cardinality(IndicesOfType(outline, "section")) = 4
    /\ Len(content_indices_from_outline(outline)) = 7

\* --------------------------------------------------------------- C18
\* The names of the shapes of a deck slide.
ShapeNames(slide) == {slide.shapes[j].name : j \in 1..Len(slide.shapes)}

\* The rendering type a deck slide shows by the shapes it is made of.
ShownType(slide) ==
    IF <<"title", "main">> \in ShapeNames(slide) THEN "title"
    ELSE IF <<"viz", "section", "strip">> \in ShapeNames(slide) THEN "section"
    ELSE IF <<"content", "title">> \in ShapeNames(slide) THEN "content"
    ELSE "unknown"

\* The check of a report with a name.
CheckNamed(r, name) == r.checks[CHOOSE k \in 1..Len(r.checks) : r.checks[k].name = name]

QA_CHECKS == {"no_placeholders", "content_has_visual", "content_has_editable_text"}

\* C18 (end-to-end QA pass): the deck render_ppt_from_outline makes of a
\* returned outline has one slide per outline slide in the same order, and
\* validate_deck on that deck and outline reports passed = true: no
\* placeholder shape is left, every slide the QA treats as content has a
\* shape whose name starts with "viz-" and a shape with a text frame; and in
\* any report passed is true exactly when the three named checks passed.
C18_EndToEndQAPass ==
    /\ pc \in {"render_ppt_from_outline", "validate_deck"} =>
          /\ Len(deck) = Len(outline.slides)
          /\ \A i \in 1..Len(deck) :
                /\ ShownType(deck[i]) = outline.slides[i].type
                /\ (mode = "presentation" /\ outline.slides[i].type = "content") =>
                       deck[i].notes = outline.slides[i].speaker_script
    /\ pc = "validate_deck" =>
          /\ report.passed
          /\ \A i \in 1..Len(deck) : \A j \in 1..Len(deck[i].shapes) :
                ~deck[i].shapes[j].is_placeholder
          /\ \A i \in 1..Len(outline.slides) :
                outline.slides[i].page_type \notin {"cover", "section_divider"} =>
                    /\ \E j \in 1..Len(deck[i].shapes) :
                          LET name == deck[i].shapes[j].name
                          IN  Len(name) >= 2 /\ name[1] = "viz"
                    /\ \E j \in 1..Len(deck[i].shapes) : deck[i].shapes[j].has_text_frame
    /\ pc \in {"validate_deck", "validate_other_deck"} =>
          /\ {report.checks[k].name : k \in 1..Len(report.checks)} = QA_CHECKS
          /\ report.passed <=> \A name \in QA_CHECKS : CheckNamed(report, name).passed

\* A presentation outline with its dividers, rendered on a template and
\* validated.
C18_Witness ==
    /\ pc = "validate_deck" /\ mode = "presentation"
    /\ Len(deck) = 12 /\ report.meta.content_slide_count = 7
    /\ report.passed

\* --------------------------------------------------------------- C19
\* The sections whose keyword set a raw point matches.
matched_sections ==
    [t \in RawTexts |->
        {section \in DOMAIN SECTION_FALLBACKS :
            AnyIn(CASE section = "background" -> BACKGROUND_KEYWORDS
                    [] section = "methodology" -> METHOD_KEYWORDS
                    [] section = "results" -> RESULT_KEYWORDS
                    [] OTHER -> OUTLOOK_KEYWORDS,
                  Lower(t))}]

\* The summary of scenario A: a single document, not a rebuttal file, with
\* four points, one matching only each of the four keyword sets.
IsScenarioA(s) ==
    /\ Len(s.documents) = 1
    /\ ~AnyIn(REBUTTAL_PATTERNS, Lower(s.documents[1].file))
    /\ Len(s.documents[1].key_points) = 4
    /\ \A section \in DOMAIN SECTION_FALLBACKS :
          \E i \in 1..4 : matched_sections[s.documents[1].key_points[i]] = {section}

\* The point of the scenario document that matches a section.
PointFor(s, section) ==
    LET key_points == s.documents[1].key_points
    IN  key_points[CHOOSE i \in 1..4 : matched_sections[key_points[i]] = {section}]

OnSlideLimit(m) == IF m = "presentation" THEN 78 ELSE 190

\* The points _collect_points is specified to keep: at least 15 characters
\* once whitespace is collapsed, no marker of a deck input, no rebuttal
\* pattern, no noise, and either CJK text or a topic keyword.
scenario_kept ==
    [t \in RawTexts |->
        LET text == collapsed[t]
            lowered == Lower(text)
        IN  /\ Len(text) >= 15
            /\ ~Contains(text, PPT_INPUT_MARKER)
            /\ ~AnyIn(REBUTTAL_PATTERNS, lowered)
            /\ ~AnyIn(NOISE_PATTERNS, lowered) /\ ~Contains(lowered, AT_SIGN) /\ Len(text) <= 420
            /\ \/ \E i \in 1..Len(text) : text[i] >= CJK_FIRST /\ text[i] <= CJK_LAST
               \/ AnyIn(TOPIC_HINT_KEYWORDS, lowered)]

\* A point of the text, cut to the limit of the mode.
Cut(text, m) == truncate(text, OnSlideLimit(m))

\* C19 as stated (scenario A): each of the background, methodology, results
\* and outlook slides holds the section's matching point as its first item,
\* verbatim and truncated to the limit of the mode, followed by the
\* section's fallback entries until the slide has N items.
C19_ScenarioA ==
    (pc = "build_outline" /\ error = "none" /\ IsScenarioA(summary)) =>
        \A section \in DOMAIN SECTION_FALLBACKS :
            SlideOf(outline, section).on_slide_content =
                <<Cut(PointFor(summary, section), mode)>>
                    \o Take(SECTION_FALLBACKS[section], ClaimedSize(mode) - 1)

\* C19 as amended (scenario A): a matching point that _collect_points keeps
\* is the first item of its section's slide, with its whitespace collapsed
\* and truncated to the limit of the mode, followed by the section's
\* fallback entries until the slide has N items; a matching point that is
\* not kept is not on the slide.
C19_ScenarioAKeptPoints ==
    (pc = "build_outline" /\ error = "none" /\ IsScenarioA(summary)) =>
        \A section \in DOMAIN SECTION_FALLBACKS :
            LET point == PointFor(summary, section)
                content == SlideOf(outline, section).on_slide_content
            IN  IF scenario_kept[point]
                THEN content = <<Cut(collapsed[point], mode)>>
                                   \o Take(SECTION_FALLBACKS[section], ClaimedSize(mode) - 1)
                ELSE /\ point \notin Range(content)
                     /\ Cut(collapsed[point], mode) \notin Range(content)

\* Scenario A in presentation mode with a results point longer than the
\* limit, an outlook point with irregular whitespace and a methodology point
\* that is too short.
C19_Witness ==
    /\ pc = "build_outline" /\ error = "none" /\ mode = "presentation"
    /\ IsScenarioA(summary)
    /\ PointFor(summary, "results") = P_result_long
    /\ PointFor(summary, "outlook") = P_outlook_ws
    /\ PointFor(summary, "methodology") = P_short
    /\ Len(SlideOf(outline, "results").on_slide_content[1]) = 78

\* --------------------------------------------------------------- C20
TOKEN_fangfa == <<26041, 27861>>
TOKEN_jieguo == <<32467, 26524>>

\* The first of the sections, in the order background, methodology, results,
\* outlook, that is in a non-empty set of sections.
Earliest(sections) ==
    Sections[CHOOSE k \in 1..Len(Sections) :
                 Sections[k] \in sections /\ \A j \in 1..(k - 1) : Sections[j] \notin sections]

\* Point t is in the bucket of the section and in no other bucket.
FiledOnlyUnder(bs, t, section) ==
    \A other \in DOMAIN bs : (t \in Range(bs[other])) <=> (other = section)

\* C20 as stated (first-match priority): a point that matches keywords of
\* several sets is filed under the earliest matching set; one matching a
\* background and a methodology keyword is always filed under background,
\* and one matching "方法" and "结果" always lands in methodology.
C20_FirstMatchAlways ==
    pc = "section_payloads" =>
        \A i \in 1..Len(points) :
            LET t == points[i]
                matched == matched_sections[t]
            IN  /\ Cardinality(matched) >= 2 => FiledOnlyUnder(buckets, t, Earliest(matched))
                /\ {"background", "methodology"} \subseteq matched =>
                       FiledOnlyUnder(buckets, t, "background")
                /\ (Contains(Lower(t), TOKEN_fangfa) /\ Contains(Lower(t), TOKEN_jieguo)) =>
                       FiledOnlyUnder(buckets, t, "methodology")

\* C20 as amended: as above, but a point with "方法" and "结果" lands in
\* methodology when it matches no background keyword, and in background
\* when it does.
C20_FirstMatchPriority ==
    pc = "section_payloads" =>
        \A i \in 1..Len(points) :
            LET t == points[i]
                matched == matched_sections[t]
            IN  /\ Cardinality(matched) >= 2 => FiledOnlyUnder(buckets, t, Earliest(matched))
                /\ {"background", "methodology"} \subseteq matched =>
                       FiledOnlyUnder(buckets, t, "background")
                /\ (Contains(Lower(t), TOKEN_fangfa) /\ Contains(Lower(t), TOKEN_jieguo)) =>
                       FiledOnlyUnder(buckets, t,
                           IF "background" \in matched THEN "background" ELSE "methodology")

\* A run that files a background-and-methodology point, a point with "方法"
\* and "结果" only, and one that matches all four sets.
C20_Witness ==
    /\ pc = "section_payloads"
    /\ {P_bg_method, P_method_result, P_all_sections} \subseteq Range(points)
    /\ Range(buckets.background) = {P_bg_method, P_all_sections}
    /\ Range(buckets.methodology) = {P_method_result}

\* --------------------------------------------------------------- C21
\* How many of the first n points of the pass are in the bucket of a section.
FiledBefore(n, section) ==
    Cardinality({j \in 1..n : points[j] \in Range(buckets[section])})

\* C21 (load-balancing fallback): in a classification pass a point that
\* matches no keyword set goes to results exactly when the results bucket
\* holds at that moment no more points than the methodology bucket, and to
\* methodology otherwise, never to background or outlook; so in a pass
\* without any matching point the results bucket is, after every prefix, as
\* long as the methodology bucket or one longer.
C21_LoadBalancing ==
    pc = "section_payloads" =>
        /\ \A i \in 1..Len(points) :
              matched_sections[points[i]] = {} =>
                  FiledOnlyUnder(buckets, points[i],
                      IF FiledBefore(i - 1, "results") <= FiledBefore(i - 1, "methodology")
                      THEN "results" ELSE "methodology")
        /\ (\A i \in 1..Len(points) : matched_sections[points[i]] = {}) =>
              \A n \in 0..Len(points) :
                  FiledBefore(n, "results") - FiledBefore(n, "methodology") \in {0, 1}

\* A pass of four points without a keyword, two to each bucket in turn.
C21_Witness ==
    /\ pc = "section_payloads"
    /\ points = <<P_plain1, P_plain2, P_plain3, P_plain4>>
    /\ buckets.results = <<P_plain1, P_plain3>>
    /\ buckets.methodology = <<P_plain2, P_plain4>>

\* --------------------------------------------------------------- C22
TOKEN_copyright == <<99, 111, 112, 121, 114, 105, 103, 104, 116>>
TOKEN_all_rights_reserved ==
    <<97, 108, 108, 32, 114, 105, 103, 104, 116, 115, 32, 114, 101, 115, 101, 114, 118, 101, 100>>

\* The quality score C22 names.
claimed_score ==
    [t \in RawTexts |->
        (IF \E i \in 1..Len(t) : t[i] >= CJK_FIRST /\ t[i] <= CJK_LAST THEN 3 ELSE 0)
        + (IF Len(t) >= 30 /\ Len(t) <= 190 THEN 1 ELSE 0)
        + (IF AnyIn(TOPIC_HINT_KEYWORDS, Lower(t)) THEN 1 ELSE 0)
        - (IF Contains(Lower(t), TOKEN_copyright) \/ Contains(Lower(t), TOKEN_all_rights_reserved)
           THEN 2 ELSE 0)]

\* The place of a point in the bucket of its section, in order of arrival.
PlaceIn(bucket, t) == CHOOSE i \in 1..Len(bucket) : bucket[i] = t

\* Point a comes before point b when the bucket is sorted by descending
\* score and equal scores keep their order of arrival.
RanksBefore(bucket, a, b) ==
    \/ claimed_score[a] > claimed_score[b]
    \/ claimed_score[a] = claimed_score[b] /\ PlaceIn(bucket, a) < PlaceIn(bucket, b)

\* C22 (quality ranking): the real points of a section's payload are the
\* first N of its bucket after a stable sort by descending quality score
\* (+3 CJK, +1 length in 30..190, +1 topic keyword, -2 copyright marker): no
\* omitted point of the section has a higher score than an included one, and
\* points of equal score keep their order.
C22_QualityRanking ==
    pc = "section_payloads" =>
        \A section \in DOMAIN SECTION_FALLBACKS :
            LET bucket == buckets[section]
                k == Min(ClaimedSize(mode), Len(bucket))
                chosen == SubSeq(payloads[section], 1, k)
                omitted == Range(bucket) \ Range(chosen)
            IN  /\ Range(chosen) \subseteq Range(bucket)
                /\ Cardinality(Range(chosen)) = k
                /\ \A a, b \in 1..k : a < b => RanksBefore(bucket, chosen[a], chosen[b])
                /\ \A a \in 1..k : \A o \in omitted :
                      /\ claimed_score[o] <= claimed_score[chosen[a]]
                      /\ RanksBefore(bucket, chosen[a], o)

\* A presentation pass with five methodology points: the one of score 4
\* first, two of the three of score 3 in their order of arrival, the third
\* and the one with a copyright marker left out.
C22_Witness ==
    /\ pc = "section_payloads" /\ mode = "presentation"
    /\ buckets.methodology = <<P_copyright, P_method_long, P_method, P_fb_background1, P_method_result>>
    /\ SubSeq(payloads.methodology, 1, 3) = <<P_fb_background1, P_method_long, P_method>>

\* --------------------------------------------------------------- C23
\* The raw points of the documents of a summary that _collect_points does
\* not pass over: no rebuttal pattern in the file name, kind other than pptx.
PointsOfIncluded(s) ==
    UNION { Range(d.key_points) :
              d \in {x \in Range(Get(s, "documents", <<>>)) :
                        ~AnyIn(REBUTTAL_PATTERNS, Lower(x.file)) /\ Lower(x.kind) # KIND_pptx} }

HasCJK(text) == \E i \in 1..Len(text) : text[i] >= CJK_FIRST /\ text[i] <= CJK_LAST

\* No noise pattern, no '@', at most 420 characters, and no rebuttal pattern.
claimed_clean ==
    [t \in RawTexts |->
        LET lowered == Lower(collapsed[t])
        IN  /\ ~AnyIn(NOISE_PATTERNS, lowered) /\ ~Contains(lowered, AT_SIGN)
            /\ Len(collapsed[t]) <= 420
            /\ ~AnyIn(REBUTTAL_PATTERNS, lowered)]

\* The conditions of survival C23 names, on the normalized text.
claimed_survival ==
    [t \in RawTexts |->
        /\ Len(collapsed[t]) >= 15
        /\ claimed_clean[t]
        /\ HasCJK(collapsed[t]) \/ AnyIn(TOPIC_HINT_KEYWORDS, Lower(collapsed[t]))]

has_deck_marker == [t \in RawTexts |-> Contains(collapsed[t], PPT_INPUT_MARKER)]

Collected(t) == collapsed[t] \in Range(collected)

\* C23 as stated (point survival rule): a raw point of a document that is
\* not excluded is collected exactly when its normalized text has at least
\* 15 characters, is not noise, matches no rebuttal pattern and has a CJK
\* character or a topic keyword; an English-only point without a topic
\* keyword is always dropped and a CJK point without noise or rebuttal
\* vocabulary is always kept.
C23_SurvivalRule ==
    pc = "collect_points" =>
        \A t \in PointsOfIncluded(summary) :
            /\ Collected(t) <=> claimed_survival[t]
            /\ (~HasCJK(collapsed[t]) /\ ~AnyIn(TOPIC_HINT_KEYWORDS, Lower(collapsed[t]))) =>
                   ~Collected(t)
            /\ (HasCJK(collapsed[t]) /\ claimed_clean[t]) => Collected(t)

\* C23 as amended: the same with the marker of a deck input as one more
\* reason to drop a point, and with the last sentence about CJK points of
\* at least 15 characters without that marker.
C23_SurvivalRuleWithMarker ==
    pc = "collect_points" =>
        \A t \in PointsOfIncluded(summary) :
            /\ Collected(t) <=> (claimed_survival[t] /\ ~has_deck_marker[t])
            /\ (~HasCJK(collapsed[t]) /\ ~AnyIn(TOPIC_HINT_KEYWORDS, Lower(collapsed[t]))) =>
                   ~Collected(t)
            /\ (HasCJK(collapsed[t]) /\ claimed_clean[t] /\ Len(collapsed[t]) >= 15
                    /\ ~has_deck_marker[t]) => Collected(t)

\* A paper with a point of 420 characters, which is kept, and one with the
\* marker of a deck input, which is dropped.
C23_Witness ==
    /\ pc = "collect_points"
    /\ summary.documents[1].file = F_paper
    /\ summary.documents[1].key_points = <<P_deck, P_len_420>>
    /\ collected = <<P_len_420>>

\* The position of a raw point in the claimed processing order: the class of
\* its document (0 thesis-named, 1 docx, 2 pdf, 3 any other kind), the place
\* of the document in the summary, the place of the point in the document.
ClaimedClass(doc) ==
    IF AnyIn(THESIS_MARKERS, doc.file) THEN 0
    ELSE IF Lower(doc.kind) = KIND_docx THEN 1
    ELSE IF Lower(doc.kind) = KIND_pdf THEN 2
    ELSE 3

\* The places where the normalized text is a surviving point of a document
\* that is neither a deck nor a reviewer response.
Occurrences(s, text) ==
    LET documents == Get(s, "documents", <<>>)
        contributes(d) ==
            /\ Lower(documents[d].kind) # KIND_pptx
            /\ ~AnyIn(REBUTTAL_PATTERNS, Lower(documents[d].file))
        is_text(raw) ==
            collapsed[raw] = text /\ claimed_survival[raw] /\ ~has_deck_marker[raw]
    IN  UNION { { <<ClaimedClass(documents[d]), d, k>> :
                    k \in { x \in 1..Len(documents[d].key_points) :
                               is_text(documents[d].key_points[x]) } } :
                d \in { x \in 1..Len(documents) : contributes(x) } }

Earlier(a, b) ==
    \/ a[1] < b[1]
    \/ a[1] = b[1] /\ a[2] < b[2]
    \/ a[1] = b[1] /\ a[2] = b[2] /\ a[3] < b[3]

\* The first place where a text is seen.
FirstSeen(s, text) ==
    CHOOSE a \in Occurrences(s, text) : \A b \in Occurrences(s, text) \ {a} : Earlier(a, b)

SeenTexts(s) == { t \in Texts : Occurrences(s, t) # {} }

\* C24 (collection order and cap): _collect_points returns the first `limit`
\* distinct surviving points in processing order, 180 by default: thesis-named
\* documents first, then docx, then pdf, then the others, in summary order
\* within a class and in document order within a document; decks contribute
\* nothing; a repeated point takes no slot, and the points the cap drops are
\* the latest-seen ones.
C24_OrderAndCap ==
    pc = "collect_points" =>
        LET seen == SeenTexts(summary)
            n == Len(collected)
        IN  /\ n <= limit
            /\ n = Min(limit, Cardinality(seen))
            /\ Range(collected) \subseteq seen
            /\ \A i, j \in 1..n :
                   i < j => Earlier(FirstSeen(summary, collected[i]), FirstSeen(summary, collected[j]))
            /\ \A t \in seen \ Range(collected) :
                   \A i \in 1..n : Earlier(FirstSeen(summary, collected[i]), FirstSeen(summary, t))

\* A pdf listed before a docx, a point repeated inside the docx ahead of the
\* cut, and a limit of 2 with three distinct points: the docx comes first,
\* the repeat takes no slot and the pdf's point is the one dropped.
C24_Witness ==
    /\ pc = "collect_points"
    /\ limit = 2
    /\ summary = [documents |-> << Document(F_paper, KIND_PDF, <<P_result, P_short, P_plain1>>),
                                   Document(F_notes, KIND_docx, <<P_plain1, P_plain1_ws, P_method>>) >>]
    /\ collected = <<P_plain1, P_method>>


\* ---------------------------------------------------------------- C25
ClaimedLimit(m) == IF m = "presentation" THEN 78 ELSE 190

IsPrefix(a, b) == Len(a) <= Len(b) /\ a = SubSeq(b, 1, Len(a))

\* An item shows its source text: the text itself when it is within the
\* limit, else a prefix of it followed by one ellipsis character.
ShowsSource(item, source, max_len) ==
    IF Len(source) <= max_len
    THEN item = source
    ELSE /\ item # <<>>
         /\ item[Len(item)] = 8230
         /\ IsPrefix(SubSeq(item, 1, Len(item) - 1), source)

\* C25 (on-slide truncation): every on_slide_content item of a content slide
\* has at most 78 characters in presentation mode and at most 190 in
\* self_explanatory mode; an item whose source text is within the limit is
\* the source text, a longer one is a prefix of it followed by a single
\* ellipsis; bullets equals on_slide_content.
C25_OnSlideTruncation ==
    pc = "make_slide" =>
        /\ Len(made_slide.on_slide_content) = Len(slide_content)
        /\ \A i \in 1..Len(slide_content) :
               /\ Len(made_slide.on_slide_content[i]) <= ClaimedLimit(mode)
               /\ ShowsSource(made_slide.on_slide_content[i], slide_content[i], ClaimedLimit(mode))
        /\ made_slide.bullets = made_slide.on_slide_content

\* A presentation slide with an item of exactly 78 characters, shown whole,
\* an item of 79, cut, and an item cut at a space.
C25_Witness ==
    /\ pc = "make_slide"
    /\ mode = "presentation"
    /\ \E i, j, k \in 1..Len(slide_content) :
          /\ slide_content[i] = T_78 /\ made_slide.on_slide_content[i] = T_78
          /\ slide_content[j] = T_79 /\ made_slide.on_slide_content[j] = SubSeq(T_79, 1, 77) \o <<8230>>
          /\ slide_content[k] = T_cut_at_space /\ Len(made_slide.on_slide_content[k]) = 77


\* ---------------------------------------------------------------- C26
RECURSIVE PlaceOf(_, _)
\* Where item k of a list starts in the list's items written one after
\* another with one separator character between them.
PlaceOf(list, k) == IF k = 1 THEN 1 ELSE PlaceOf(list, k - 1) + Len(list[k - 1]) + 1

\* A text is the first `count` items of a list, whole and in order, with a
\* full-width semicolon between them and nothing else.
IsScriptOf(text, list, count) ==
    /\ Len(text) = PlaceOf(list, count) + Len(list[count]) - 1
    /\ \A k \in 1..count :
           /\ SubSeq(text, PlaceOf(list, k), PlaceOf(list, k) + Len(list[k]) - 1) = list[k]
           /\ k > 1 => text[PlaceOf(list, k) - 1] = 65307

\* C26 (speaker script construction): in presentation mode the
\* speaker_script of a content slide is its first four content items,
\* untruncated and in order, joined by the full-width semicolon, and
\* speaker_notes is the same text; with no content, or an empty join, both
\* are the generic script sentence.
C26_SpeakerScript ==
    (pc = "make_slide" /\ mode = "presentation") =>
        LET count == Min(4, Len(slide_content))
            empty == count = 0 \/ (count = 1 /\ slide_content[1] = <<>>)
        IN  /\ made_slide.speaker_notes = made_slide.speaker_script
            /\ IF empty
               THEN made_slide.speaker_script = GENERIC_SCRIPT
               ELSE IsScriptOf(made_slide.speaker_script, slide_content, count)

\* A presentation slide of five items whose second item is cut on the slide
\* and whole in the script, and whose fifth item is not in the script.
C26_Witness ==
    /\ pc = "make_slide" /\ mode = "presentation"
    /\ slide_content = <<P_bg, T_79, T_190, T_78, P_method_long>>
    /\ made_slide.on_slide_content[2] # T_79
    /\ Len(made_slide.speaker_script) = Len(P_bg) + 79 + 190 + 78 + 3


ImageAttached(o, i) ==
    /\ "visual_spec" \in DOMAIN o.slides[i]
    /\ o.slides[i].visual_spec.image_path # <<>>
    /\ path_exists(o.slides[i].visual_spec.image_path)

\* C28 (image rendering follows the outline): in the deck rendered from an
\* outline of build_outline, a content slide holds the picture shape
\* 'viz-image-main' exactly when the outline attached a non-empty image path
\* to the slide and the file exists; a content slide without an image, or
\* whose file is missing, holds the bar-and-ring visual instead.
C28_ImageRendering ==
    pc = "render_ppt_from_outline" =>
        \A i \in 1..Len(outline.slides) :
            outline.slides[i].type = "content" =>
                /\ <<"viz", "image", "main">> \in ShapeNames(deck[i]) <=> ImageAttached(outline, i)
                /\ ~ImageAttached(outline, i) =>
                       /\ <<"viz", "summary", "ring">> \in ShapeNames(deck[i])
                       /\ <<"viz", "image", "main">> \notin ShapeNames(deck[i])

========================================================================
